---- MODULE Spec2Model ----
(***************************************************************************)
(* A model of m-dur/fetch_analysis.                                        *)
(*                                                                         *)
(*  - the loader, src/assets/data_ingestor.py: DatabaseIngester and the    *)
(*    store it writes through one psycopg2 connection (specification Spec) *)
(*  - several loader processes, each with a connection of its own, that   *)
(*    load receipts into one store, statement by statement (SpecWorkers)   *)
(*  - the modeler, src/assets/dw_modeler.py: DataWarehouseModeler, the     *)
(*    structure it infers from documents and the DDL it generates          *)
(*    (SpecModeler)                                                        *)
(*                                                                         *)
(* Python values are tagged records [t, v]; Python's None, where it is a   *)
(* plain column value, is the string None.  A timestamp is <<n>> and the   *)
(* SQL NULL timestamp is <<>>.                                             *)
(***************************************************************************)
EXTENDS Integers, Sequences, FiniteSets, TLC

\* ------------------------------------------------------------------ bounds
\* Records attempted in one behaviour of the loader, over all its operations.
MaxRecords == 4
\* Records in the batch of one of the concurrent loader workers.
MaxWorkerBatch == 2
\* Documents in the list that analyze_structure is called with.
MaxDocuments == 2
\* Calls of analyze_structure on one modeler, and of generate_ddl on one model.
MaxCalls == 2

\* ------------------------------------------------------------------ values
None == "None"
UserOids == {"u1", "u2"}
BrandCodes == {"b1"}
ReceiptOids == {"r1"}
CategoryNames == {"c1", "UNKNOWN"}

PyNone == [t |-> "none", v |-> None]
Absent == [t |-> "absent", v |-> None]
PyStr(s) == [t |-> "str", v |-> s]
Oid(s) == [t |-> "oid", v |-> s]
MongoDate(ms) == [t |-> "date", v |-> ms]

\* dict.get(key): an absent key reads as None.
Get(value) == IF value.t = "absent" THEN PyNone ELSE value

\* Python truthiness of a scalar column value (None and '' are falsy).
Truthy(x) == x # None /\ x # ""

\* datetime.fromtimestamp(ms / 1000): the timestamp of the epoch value.
FromTimestamp(ms) == <<"ts", ms>>

process_timestamp(value) ==
    IF value.t = "date" THEN FromTimestamp(value.v) ELSE value.v

process_value(value) ==
    IF value.t = "date" THEN process_timestamp(value)
    ELSE IF value.t = "oid" THEN value.v
    ELSE value.v

\* ------------------------------------------------------------------ inputs
\* The batches of at most n records of D.
BatchesOf(D, n) == UNION {[1..k -> D] : k \in 0..n}

\* A receipt as insert_receipt_without_items reads it; bad: the store rejects
\* the row (a constraint or persistence error raised by the INSERT).
ReceiptDocs ==
    [oid : {Oid(r) : r \in ReceiptOids},
     userId : {Absent, PyNone} \cup {Oid(u) : u \in UserOids},
     bad : BOOLEAN]

ItemDocs == [brandCode : {Absent} \cup {PyStr(b) : b \in BrandCodes}, bad : BOOLEAN]

UserDocs == [oid : {Oid(u) : u \in UserOids}, bad : BOOLEAN]

BrandDocs ==
    [brandCode : {PyStr(b) : b \in BrandCodes},
     category : {Absent, PyStr("")} \cup {PyStr(c) : c \in CategoryNames},
     bad : BOOLEAN]

\* ------------------------------------------------------------------- state
VARIABLES
    store,      \* the committed tables of the persistent store
    conn,       \* the ingester's connection: its open transaction
    now,        \* the store's clock (CURRENT_TIMESTAMP): records attempted so far
    last,       \* what the last operation was given and did (history)
    sightings,  \* history: dangling references attempted so far, per ledger
    workers,    \* the concurrent loader workers: batch, position, open upsert
    modeler,    \* the DataWarehouseModeler instance
    analysis,   \* history: the last call on the modeler, its input and result
    run         \* one run of the loader's main: position, data_store, outcome

loaderVars == <<store, conn, now, last, sightings>>
vars == <<store, conn, now, last, sightings, workers, modeler, analysis, run>>

EmptyStore ==
    [users |-> {}, categories |-> {}, brands |-> {},
     receipts |-> <<>>, rewardsreceiptitemlist |-> <<>>,
     missing_users |-> {}, missing_brands |-> {}]

\* ------------------------------------------------- the connection (psycopg2)
\* S threads the store, the connection and the handler's trace through the
\* statements of a handler:
\*   store  committed tables          work    the open transaction's view
\*   open   a transaction is open     failed  it is aborted (a statement raised)
\*   dirty  tables it has written     txrecs  records whose statements ran in it
\*   now    the clock                 cur     the record being attempted
\*   attempted, reported, txlog       the trace of the current operation

ExecRaises(S, rejected) == S.failed \/ rejected

ExecFail(S) ==
    [S EXCEPT !.open = TRUE, !.failed = TRUE, !.txrecs = @ \cup {S.cur}]

ExecRead(S) == [S EXCEPT !.open = TRUE, !.txrecs = @ \cup {S.cur}]

ExecWrite(S, work, table) ==
    [S EXCEPT !.open = TRUE, !.work = work, !.txrecs = @ \cup {S.cur},
              !.dirty = Append(@, [rec |-> S.cur, table |-> table])]

EndTx(S, how) ==
    [S EXCEPT !.open = FALSE, !.failed = FALSE, !.dirty = <<>>, !.txrecs = {},
              !.txlog = Append(@, [recs |-> S.txrecs, writes |-> S.dirty,
                                   end |-> how])]

Rollback_Forgotten(S) == S

\* conn.rollback()
Rollback(S) ==
    IF ~S.open THEN S ELSE EndTx([S EXCEPT !.work = S.store], "rollback")

\* conn.commit(): COMMIT of an aborted transaction rolls it back.
Commit(S) ==
    IF ~S.open THEN S
    ELSE IF S.failed THEN EndTx([S EXCEPT !.work = S.store], "rollback")
    ELSE EndTx([S EXCEPT !.store = S.work], "commit")

\* print(f"Error ...") in an except block.
Report(S) == [S EXCEPT !.reported = Append(@, S.cur)]

\* The loop (or the caller) turns to a record: time passes, and the time
\* names the record in the operation's trace.
StartRecord(S) ==
    [S EXCEPT !.cur = S.now + 1, !.now = @ + 1, !.attempted = Append(@, S.now + 1)]

\* ---------------------------------------------------------------- the ledger
\* A column the INSERT does not name takes the column's default:
\* exception_tables declares first_seen and last_seen as plain TIMESTAMP.
TimestampDefault == <<>>

Upsert_DoNothing(rows, k, ts) ==
    IF \E r \in rows : r.key = k THEN rows
    ELSE rows \cup {[key |-> k, occurrence_count |-> 1,
                     first_seen |-> <<>>, last_seen |-> <<>>]}

HasRow(rows, k) == \E r \in rows : r.key = k
RowOf(rows, k) == CHOOSE r \in rows : r.key = k

\* INSERT INTO missing_x (key, occurrence_count) VALUES (k, 1)
\* ON CONFLICT (key) DO UPDATE SET occurrence_count = occurrence_count + 1,
\*                                 last_seen = CURRENT_TIMESTAMP
Upsert(rows, k, ts) ==
    IF HasRow(rows, k)
    THEN (rows \ {RowOf(rows, k)}) \cup
         {[RowOf(rows, k) EXCEPT !.occurrence_count = @ + 1, !.last_seen = <<ts>>]}
    ELSE rows \cup {[key |-> k, occurrence_count |-> 1,
                     first_seen |-> TimestampDefault,
                     last_seen |-> TimestampDefault]}

track_missing_brand_InChildTx(S, brandcode) ==
    IF ExecRaises(S, FALSE) THEN Rollback(Report(ExecFail(S)))
    ELSE ExecWrite(S,
            [S.work EXCEPT !.missing_brands = Upsert(@, brandcode, S.now)],
            "missing_brands")

track_missing_brand(S, brandcode) ==
    IF ExecRaises(S, FALSE) THEN Rollback(Report(ExecFail(S)))
    ELSE Commit(ExecWrite(S,
            [S.work EXCEPT !.missing_brands = Upsert(@, brandcode, S.now)],
            "missing_brands"))

track_missing_user_AsBrand(S, user_id) ==
    IF ExecRaises(S, FALSE) THEN Rollback(Report(ExecFail(S)))
    ELSE Commit(ExecWrite(S,
            [S.work EXCEPT !.missing_brands = Upsert(@, user_id, S.now)],
            "missing_brands"))

track_missing_user(S, user_id) ==
    IF ExecRaises(S, FALSE) THEN Rollback(Report(ExecFail(S)))
    ELSE Commit(ExecWrite(S,
            [S.work EXCEPT !.missing_users = Upsert(@, user_id, S.now)],
            "missing_users"))

\* ------------------------------------------------------------------ receipts
DanglingUserId_Kept(user_id) == user_id

\* user_id = None, after track_missing_user
DanglingUserId(user_id) == None

\* Returns [S, ret]: ret is receipts_id, or 0 for Python's None.
insert_receipt_without_items(S0, receipt) ==
    LET user_id == process_value(Get(receipt.userId))
        lookup == Truthy(user_id)
        selRaises == lookup /\ ExecRaises(S0, FALSE)
        S1 == IF lookup THEN ExecRead(S0) ELSE S0
        missing == lookup /\ user_id \notin S1.work.users
        S2 == IF missing THEN track_missing_user(S1, user_id) ELSE S1
        userid == IF missing THEN DanglingUserId(user_id) ELSE user_id
        receipts_id == Len(S2.work.receipts) + 1
        row == [receipts_id |-> receipts_id,
                oid |-> process_value(Get(receipt.oid)),
                userid |-> userid]
        S3 == ExecWrite(S2, [S2.work EXCEPT !.receipts = Append(@, row)], "receipts")
    IN  IF selRaises THEN [S |-> Rollback(Report(ExecFail(S0))), ret |-> 0]
        ELSE IF ExecRaises(S2, receipt.bad)
             THEN [S |-> Rollback(Report(ExecFail(S2))), ret |-> 0]
        ELSE [S |-> Commit(S3), ret |-> receipts_id]

\* --------------------------------------------------------------------- items
insert_receipt_item(S0, item, receipt_id) ==
    LET brandcode == Get(item.brandCode).v
        lookup == Truthy(brandcode)
        selRaises == lookup /\ ExecRaises(S0, FALSE)
        S1 == IF lookup THEN ExecRead(S0) ELSE S0
        missing == lookup /\ brandcode \notin S1.work.brands
        S2 == IF missing THEN track_missing_brand(S1, brandcode) ELSE S1
        row == [receipt_id |-> receipt_id, brandcode |-> brandcode]
        S3 == ExecWrite(S2,
                [S2.work EXCEPT !.rewardsreceiptitemlist = Append(@, row)],
                "rewardsreceiptitemlist")
    IN  IF selRaises THEN Rollback(Report(ExecFail(S0)))
        ELSE IF ExecRaises(S2, item.bad) THEN Rollback(Report(ExecFail(S2)))
        ELSE Commit(S3)

RECURSIVE insert_receipt_items_from(_, _, _, _)
insert_receipt_items_from(S, items, receipt_id, i) ==
    IF i > Len(items) THEN S
    ELSE insert_receipt_items_from(
            insert_receipt_item(StartRecord(S), items[i], receipt_id),
            items, receipt_id, i + 1)

insert_receipt_items(S, items, receipt_id) ==
    insert_receipt_items_from(S, items, receipt_id, 1)

\* --------------------------------------------------------------------- users
insert_user(S, user) ==
    IF ExecRaises(S, user.bad) THEN Rollback(Report(ExecFail(S)))
    ELSE Commit(ExecWrite(S,
            [S.work EXCEPT !.users = @ \cup {Get(user.oid).v}], "users"))

\* The second loop's body: receipt.get('userId', {}).get('$oid') raises
\* AttributeError on a userId that is present and not a mapping.
insert_receipt_of_known_user(S, receipt) ==
    LET userId == receipt.userId
        user_id == IF userId.t = "oid" THEN userId.v ELSE None
    IN  IF userId.t \notin {"absent", "oid"} THEN Rollback(Report(S))
        ELSE IF ~Truthy(user_id) THEN S
        ELSE IF ExecRaises(S, FALSE) THEN Rollback(Report(ExecFail(S)))
        ELSE IF user_id \in S.work.users
             THEN insert_receipt_without_items(ExecRead(S), receipt).S
        ELSE ExecRead(S)

RECURSIVE insert_users_from(_, _, _)
insert_users_from(S, users_data, i) ==
    IF i > Len(users_data) THEN S
    ELSE insert_users_from(insert_user(StartRecord(S), users_data[i]),
                           users_data, i + 1)

RECURSIVE insert_receipts_from(_, _, _)
insert_receipts_from(S, receipts_data, i) ==
    IF i > Len(receipts_data) THEN S
    ELSE insert_receipts_from(
            insert_receipt_of_known_user(StartRecord(S),
                                         receipts_data[i]),
            receipts_data, i + 1)

insert_users_and_receipts(S, users_data, receipts_data) ==
    insert_receipts_from(insert_users_from(S, users_data, 1), receipts_data, 1)

\* -------------------------------------------------------------------- brands
\* The dict comprehension: one entry per truthy category of the batch.
CategoriesOf(brands_data) ==
    {Get(brands_data[i].category).v : i \in {j \in 1..Len(brands_data) :
                                            Truthy(Get(brands_data[j].category).v)}}

\* INSERT INTO categories ... ON CONFLICT (category) DO UPDATE SET categorycode
insert_category(S, category) ==
    IF ExecRaises(S, FALSE) THEN Rollback(Report(ExecFail(S)))
    ELSE Commit(ExecWrite(S,
            [S.work EXCEPT !.categories =
                {r \in @ : r.category # category}
                \cup {[category |-> category, categorycode |-> ""]}],
            "categories"))

RECURSIVE insert_categories(_, _)
insert_categories(S, todo) ==
    IF todo = {} THEN S
    ELSE LET category == CHOOSE c \in todo : TRUE
         IN  insert_categories(
                insert_category(StartRecord(S), category),
                todo \ {category})

insert_brand_Unchecked(S, brand) ==
    IF ExecRaises(S, FALSE) THEN Rollback(Report(ExecFail(S)))
    ELSE IF ExecRaises(S, brand.bad) THEN Rollback(Report(ExecFail(S)))
    ELSE Commit(ExecWrite(S,
            [S.work EXCEPT !.brands = @ \cup {Get(brand.brandCode).v}],
            "brands"))

insert_brand(S, brand) ==
    LET category == IF brand.category.t = "absent" THEN "UNKNOWN"
                    ELSE brand.category.v
        result == \E r \in S.work.categories : r.category = category
    IN  IF ExecRaises(S, FALSE) THEN Rollback(Report(ExecFail(S)))
        ELSE IF ~result THEN ExecRead(S)
        ELSE IF ExecRaises(S, brand.bad) THEN Rollback(Report(ExecFail(S)))
        ELSE Commit(ExecWrite(S,
                [S.work EXCEPT !.brands = @ \cup {Get(brand.brandCode).v}],
                "brands"))

RECURSIVE insert_brands_from(_, _, _)
insert_brands_from(S, brands_data, i) ==
    IF i > Len(brands_data) THEN S
    ELSE insert_brands_from(
            insert_brand(StartRecord(S), brands_data[i]),
            brands_data, i + 1)

insert_brands_and_categories(S, brands_data) ==
    insert_brands_from(insert_categories(S, CategoriesOf(brands_data)),
                       brands_data, 1)

\* ------------------------------------------------------- history: sightings
\* A sighting of key k at time ts: what the ledger is specified to hold.
Sight(rows, k, ts) ==
    IF HasRow(rows, k)
    THEN (rows \ {RowOf(rows, k)}) \cup
         {[RowOf(rows, k) EXCEPT !.occurrence_count = @ + 1, !.last_seen = <<ts>>]}
    ELSE rows \cup {[key |-> k, occurrence_count |-> 1,
                     first_seen |-> <<ts>>, last_seen |-> <<ts>>]}

\* The parent key a record refers to, None when it refers to none.
RefUser(receipt) == IF receipt.userId.t = "oid" THEN receipt.userId.v ELSE None
RefBrand(item) == IF item.brandCode.t = "str" THEN item.brandCode.v ELSE None

RECURSIVE SightItems(_, _, _, _, _)
SightItems(rows, items, brands, t0, i) ==
    IF i > Len(items) THEN rows
    ELSE SightItems(
            IF RefBrand(items[i]) # None /\ RefBrand(items[i]) \notin brands
            THEN Sight(rows, RefBrand(items[i]), t0 + i) ELSE rows,
            items, brands, t0, i + 1)

\* ---------------------------------------------------------------- the modeler
\* src/assets/dw_modeler.py.  A name (key, column, table) is the sequence of
\* its characters; a JSON value is a record [t, n, sub]: t its Python type, n
\* the int or the length of the str, sub the items [k, v] of a dict and the
\* elements of a list (as items with an empty k).

\* The literals of the source.
S_userid == <<"u", "s", "e", "r", "i", "d">>
S_brandcode == <<"b", "r", "a", "n", "d", "c", "o", "d", "e">>
S_category == <<"c", "a", "t", "e", "g", "o", "r", "y">>
S_categorycode == <<"c", "a", "t", "e", "g", "o", "r", "y", "c", "o", "d", "e">>
S_cpg == <<"c", "p", "g">>
S_rewardsreceiptitemlist == <<"r", "e", "w", "a", "r", "d", "s", "r", "e", "c", "e", "i", "p", "t", "i", "t", "e", "m", "l", "i", "s", "t">>
S_receipts == <<"r", "e", "c", "e", "i", "p", "t", "s">>
S_brands == <<"b", "r", "a", "n", "d", "s">>
S_users == <<"u", "s", "e", "r", "s">>
S_categories == <<"c", "a", "t", "e", "g", "o", "r", "i", "e", "s">>
S_missing_brands == <<"m", "i", "s", "s", "i", "n", "g", "_", "b", "r", "a", "n", "d", "s">>
S_missing_users == <<"m", "i", "s", "s", "i", "n", "g", "_", "u", "s", "e", "r", "s">>
S_user_id == <<"u", "s", "e", "r", "_", "i", "d">>
S_occurrence_count == <<"o", "c", "c", "u", "r", "r", "e", "n", "c", "e", "_", "c", "o", "u", "n", "t">>
S_first_seen == <<"f", "i", "r", "s", "t", "_", "s", "e", "e", "n">>
S_last_seen == <<"l", "a", "s", "t", "_", "s", "e", "e", "n">>
S_missing_brands_id == <<"m", "i", "s", "s", "i", "n", "g", "_", "b", "r", "a", "n", "d", "s", "_", "i", "d">>
S_missing_users_id == <<"m", "i", "s", "s", "i", "n", "g", "_", "u", "s", "e", "r", "s", "_", "i", "d">>
S_date == <<"d", "a", "t", "e">>
S_price == <<"p", "r", "i", "c", "e">>
S_spent == <<"s", "p", "e", "n", "t">>

\* Keys of the documents analysed.
K_a == <<"a">>
K_A == <<"A">>
K_b == <<"b">>
K_n == <<"n">>
K_l == <<"l">>
K_z == <<"z">>
K_id == <<"_", "i", "d">>
K_userId == <<"u", "s", "e", "r", "I", "d">>
K_brandCode == <<"b", "r", "a", "n", "d", "C", "o", "d", "e">>
K_category == <<"c", "a", "t", "e", "g", "o", "r", "y">>
K_categoryCode == <<"c", "a", "t", "e", "g", "o", "r", "y", "C", "o", "d", "e">>
K_cpg == <<"c", "p", "g">>
K_createDate == <<"c", "r", "e", "a", "t", "e", "D", "a", "t", "e">>
K_price == <<"p", "r", "i", "c", "e">>
K_rewardsReceiptItemList == <<"r", "e", "w", "a", "r", "d", "s", "R", "e", "c", "e", "i", "p", "t", "I", "t", "e", "m", "L", "i", "s", "t">>
K_missing_users == S_missing_users
K_categories == S_categories
K_DollarOid == <<"$", "o", "i", "d">>
K_DollarDate == <<"$", "d", "a", "t", "e">>

UpperCase ==
    <<"A", "B", "C", "D", "E", "F", "G", "H", "I", "J", "K", "L", "M",
      "N", "O", "P", "Q", "R", "S", "T", "U", "V", "W", "X", "Y", "Z">>
LowerCase ==
    <<"a", "b", "c", "d", "e", "f", "g", "h", "i", "j", "k", "l", "m",
      "n", "o", "p", "q", "r", "s", "t", "u", "v", "w", "x", "y", "z">>

\* str.lower()
lower(name) ==
    [i \in 1..Len(name) |->
        IF \E j \in 1..Len(UpperCase) : UpperCase[j] = name[i]
        THEN LowerCase[CHOOSE j \in 1..Len(UpperCase) : UpperCase[j] = name[i]]
        ELSE name[i]]

\* str.replace of one character by a (possibly empty) string
RECURSIVE replace(_, _, _)
replace(name, old, new) ==
    IF name = <<>> THEN <<>>
    ELSE (IF Head(name) = old THEN new ELSE <<Head(name)>>) \o replace(Tail(name), old, new)

\* sub in name
Contains(name, sub) ==
    \E i \in 0..(Len(name) - Len(sub)) : SubSeq(name, i + 1, i + Len(sub)) = sub

\* name.split('.')[0]
SplitFirst(name) ==
    IF \E i \in 1..Len(name) : name[i] = "."
    THEN SubSeq(name, 1, (CHOOSE i \in 1..Len(name) :
                            name[i] = "." /\ \A j \in 1..(i - 1) : name[j] # ".") - 1)
    ELSE name

clean_column_name(name) == lower(replace(replace(name, "$", <<>>), ".", <<"_">>))

JNull == [t |-> "NoneType", n |-> 0, sub |-> <<>>]
JInt(n) == [t |-> "int", n |-> n, sub |-> <<>>]
JFloat(n) == [t |-> "float", n |-> n, sub |-> <<>>]
JBool(n) == [t |-> "bool", n |-> n, sub |-> <<>>]
JStr(len) == [t |-> "str", n |-> len, sub |-> <<>>]
JDict(items) == [t |-> "dict", n |-> 0, sub |-> items]
JList(elems) ==
    [t |-> "list", n |-> 0, sub |-> [i \in 1..Len(elems) |-> [k |-> <<>>, v |-> elems[i]]]]
JOid == JDict(<<[k |-> K_DollarOid, v |-> JStr(24)]>>)
JDate == JDict(<<[k |-> K_DollarDate, v |-> JInt(1)]>>)

\* key in value, for a dict
HasKey(value, key) == \E i \in 1..Len(value.sub) : value.sub[i].k = key

\* lines 12-20, with dict.get's default
type_mapping(value_type) ==
    CASE value_type = "str" -> "VARCHAR(255)"
      [] value_type = "int" -> "INTEGER"
      [] value_type = "float" -> "DECIMAL(10,2)"
      [] value_type = "bool" -> "BOOLEAN"
      [] value_type = "NoneType" -> "NULL"
      [] value_type = "dict" -> "NESTED"
      [] value_type = "list" -> "ARRAY"
      [] OTHER -> "VARCHAR(255)"

VarcharLength == 255

infer_data_type_MarkersNested(value, column_name) ==
    IF value = JNull THEN "NULL"
    ELSE IF value.t = "str" THEN
        IF Contains(lower(column_name), S_date) THEN "TIMESTAMP"
        ELSE IF Contains(lower(column_name), S_price) \/ Contains(lower(column_name), S_spent)
             THEN "DECIMAL(10,2)"
        ELSE IF value.n > VarcharLength THEN "TEXT" ELSE "VARCHAR(255)"
    ELSE type_mapping(value.t)

infer_data_type_NullAsString(value, column_name) ==
    IF value = JNull THEN "VARCHAR(255)"
    ELSE IF value.t = "dict" /\ HasKey(value, K_DollarDate) THEN "TIMESTAMP"
    ELSE IF value.t = "dict" /\ HasKey(value, K_DollarOid) THEN "VARCHAR(24)"
    ELSE IF value.t = "str" THEN
        IF Contains(lower(column_name), S_date) THEN "TIMESTAMP"
        ELSE IF Contains(lower(column_name), S_price) \/ Contains(lower(column_name), S_spent)
             THEN "DECIMAL(10,2)"
        ELSE IF value.n > VarcharLength THEN "TEXT" ELSE "VARCHAR(255)"
    ELSE type_mapping(value.t)

infer_data_type(value, column_name) ==
    IF value = JNull THEN "NULL"
    ELSE IF value.t = "dict" /\ HasKey(value, K_DollarDate) THEN "TIMESTAMP"
    ELSE IF value.t = "dict" /\ HasKey(value, K_DollarOid) THEN "VARCHAR(24)"
    ELSE IF value.t = "str" THEN
        IF Contains(lower(column_name), S_date) THEN "TIMESTAMP"
        ELSE IF Contains(lower(column_name), S_price) \/ Contains(lower(column_name), S_spent)
             THEN "DECIMAL(10,2)"
        ELSE IF value.n > VarcharLength THEN "TEXT" ELSE "VARCHAR(255)"
    ELSE type_mapping(value.t)


\* ------------------------------------------------------ the structure (model)
\* structure["tables"] is a dict in insertion order: a sequence of tables
\* [name, columns, relationships], columns a sequence of [name, types].

\* Position of the entry called name in an ordered dict, 0 when it has none.
IndexOf(entries, name) ==
    IF \E i \in 1..Len(entries) : entries[i].name = name
    THEN CHOOSE i \in 1..Len(entries) : entries[i].name = name
    ELSE 0

\* defaultdict: reading a missing table or column creates it, empty.
DefaultTable(tables, table_name) ==
    IF IndexOf(tables, table_name) = 0
    THEN Append(tables, [name |-> table_name, columns |-> <<>>, relationships |-> {}])
    ELSE tables

DefaultColumn(columns, clean_key) ==
    IF IndexOf(columns, clean_key) = 0
    THEN Append(columns, [name |-> clean_key, types |-> {}])
    ELSE columns

\* structure = {"tables": defaultdict(...)}: plain names the tables that an
\* assignment has replaced by a plain dict, raised tells that the analysis
\* has raised KeyError.
NewStructure == [tables |-> <<>>, plain |-> {}, raised |-> FALSE]

\* structure["tables"][table_name]["columns"][clean_key].add(data_type): the
\* columns of a plain table are a plain dict, reading a missing one raises
\* KeyError.
AddType(structure, table_name, clean_key, data_type) ==
    LET tables == DefaultTable(structure.tables, table_name)
        t == IndexOf(tables, table_name)
        columns == DefaultColumn(tables[t].columns, clean_key)
        c == IndexOf(columns, clean_key)
    IN  IF structure.raised THEN structure
        ELSE IF table_name \in structure.plain /\ IndexOf(tables[t].columns, clean_key) = 0
             THEN [structure EXCEPT !.raised = TRUE]
        ELSE [structure EXCEPT !.tables =
                [tables EXCEPT ![t].columns = [columns EXCEPT ![c].types = @ \cup {data_type}]]]

AddRelationship_Dropped(structure, table_name, relationship) == structure

\* structure["tables"][table_name]["relationships"].add(relationship)
AddRelationship(structure, table_name, relationship) ==
    LET tables == DefaultTable(structure.tables, table_name)
        t == IndexOf(tables, table_name)
    IN  IF structure.raised THEN structure
        ELSE [structure EXCEPT !.tables =
                [tables EXCEPT ![t].relationships = @ \cup {relationship}]]

SetTable_Dropped(structure, table_info) == structure

\* structure["tables"][table_name] = table_info
SetTable(structure, table_info) ==
    LET t == IndexOf(structure.tables, table_info.name)
    IN  IF structure.raised THEN structure
        ELSE [structure EXCEPT
                !.tables = IF t = 0 THEN Append(@, table_info)
                           ELSE [@ EXCEPT ![t] = table_info],
                !.plain = @ \cup {table_info.name}]

\* A relationship is the text of the source's f-string with its two holes.
Relationship(text, table_name, clean_key) ==
    [text |-> text, table |-> table_name, column |-> clean_key]

exception_tables ==
    << [name |-> S_missing_brands,
        columns |-> << [name |-> S_missing_brands_id, types |-> {"SERIAL PRIMARY KEY"}],
                       [name |-> S_brandcode, types |-> {"VARCHAR(255) UNIQUE"}],
                       [name |-> S_occurrence_count, types |-> {"INTEGER"}],
                       [name |-> S_first_seen, types |-> {"TIMESTAMP"}],
                       [name |-> S_last_seen, types |-> {"TIMESTAMP"}] >>,
        relationships |->
            {Relationship("tracks missing from relationship with rewardsreceiptitemlist",
                          <<>>, <<>>)}],
       [name |-> S_missing_users,
        columns |-> << [name |-> S_missing_users_id, types |-> {"SERIAL PRIMARY KEY"}],
                       [name |-> S_user_id, types |-> {"VARCHAR(24) UNIQUE"}],
                       [name |-> S_occurrence_count, types |-> {"INTEGER"}],
                       [name |-> S_first_seen, types |-> {"TIMESTAMP"}],
                       [name |-> S_last_seen, types |-> {"TIMESTAMP"}] >>,
        relationships |->
            {Relationship("tracks missing from relationship with receipts", <<>>, <<>>)}] >>

categories_table ==
    [name |-> S_categories,
     columns |-> << [name |-> S_category, types |-> {"VARCHAR(255)"}],
                    [name |-> S_categorycode, types |-> {"VARCHAR(255)"}] >>,
     relationships |->
        {Relationship("one_to_many relationship with brands (category_id)", <<>>, <<>>)}]

\* current_file_stem before the caller sets it (None).
NoStem == <<"None">>

\* DataWarehouseModeler()
NewModeler == [current_file_stem |-> NoStem, exception_tables_added |-> FALSE]

Branch_NoReferences(clean_key, value, table_name) ==
    CASE clean_key = S_category /\ table_name = S_brands -> "category"
      [] clean_key = S_categorycode /\ table_name = S_brands -> "categorycode"
      [] clean_key = S_cpg -> "cpg"
      [] OTHER ->
            IF value.t = "dict"
            THEN IF HasKey(value, K_DollarDate) \/ HasKey(value, K_DollarOid)
                 THEN "marker" ELSE "dict"
            ELSE IF value.t = "list" /\ value.sub # <<>> /\ value.sub[1].v.t = "dict"
                 THEN "list" ELSE "scalar"

\* Which branch of the loop body of _analyze_recursive a key and value take.
Branch(clean_key, value, table_name) ==
    CASE clean_key = S_userid /\ table_name = S_receipts -> "userid"
      [] clean_key = S_brandcode /\ table_name = S_rewardsreceiptitemlist -> "brandcode"
      [] clean_key = S_category /\ table_name = S_brands -> "category"
      [] clean_key = S_categorycode /\ table_name = S_brands -> "categorycode"
      [] clean_key = S_cpg -> "cpg"
      [] OTHER ->
            IF value.t = "dict"
            THEN IF HasKey(value, K_DollarDate) \/ HasKey(value, K_DollarOid)
                 THEN "marker" ELSE "dict"
            ELSE IF value.t = "list" /\ value.sub # <<>> /\ value.sub[1].v.t = "dict"
                 THEN "list" ELSE "scalar"

\* The table a dict at current_path is analysed into.
TableName(self, current_path) ==
    IF current_path # <<>> THEN SplitFirst(current_path) ELSE self.current_file_stem

RECURSIVE analyze_recursive(_, _, _, _)

\* lines 100-163: the loop body, for one key and value of the dict.
analyze_item(self, key, value, table_name, structure) ==
    LET clean_key == clean_column_name(key)
        branch == Branch(clean_key, value, table_name)
    IN  CASE branch = "userid" ->
                AddRelationship(
                    AddRelationship(
                        AddType(structure, table_name, clean_key, "VARCHAR(24)"),
                        table_name,
                        Relationship("foreign key relationship: {table_name}.{clean_key} -> users._id",
                                     table_name, clean_key)),
                    table_name,
                    Relationship("tracked by missing_users when not in users table",
                                 <<>>, <<>>))
          [] branch = "brandcode" ->
                AddRelationship(
                    AddRelationship(
                        AddType(structure, table_name, clean_key, "VARCHAR(255)"),
                        table_name,
                        Relationship("foreign key relationship: {table_name}.{clean_key} -> brands.brandcode",
                                     table_name, clean_key)),
                    table_name,
                    Relationship("tracked by missing_brands when not in brands table",
                                 <<>>, <<>>))
          [] branch = "category" ->
                AddRelationship(
                    SetTable(structure, categories_table),
                    table_name,
                    Relationship(
                        "foreign key relationship: {table_name}.category_id -> categories.category_id",
                        table_name, <<>>))
          [] branch \in {"categorycode", "cpg"} -> structure
          [] branch = "marker" ->
                AddType(structure, table_name, clean_key, infer_data_type(value, clean_key))
          [] branch = "dict" -> analyze_recursive(self, value, clean_key, structure)
          [] branch = "list" ->
                analyze_recursive(self, value.sub[1].v, clean_key,
                    IF clean_key = S_rewardsreceiptitemlist
                    THEN AddRelationship(structure, table_name,
                            Relationship("one_to_many relationship with rewardsreceiptitemlist (receipt_id)",
                                         <<>>, <<>>))
                    ELSE structure)
          [] OTHER ->
                AddType(structure, table_name, clean_key, infer_data_type(value, clean_key))

RECURSIVE analyze_items(_, _, _, _, _)
analyze_items(self, items, i, table_name, structure) ==
    IF i > Len(items) \/ structure.raised THEN structure
    ELSE analyze_items(self, items, i + 1, table_name,
            analyze_item(self, items[i].k, items[i].v, table_name, structure))

analyze_recursive_IntoParent(self, item, current_path, structure) ==
    IF item.t = "dict"
    THEN analyze_items(self, item.sub, 1, TableName(self, <<>>), structure)
    ELSE structure

analyze_recursive(self, item, current_path, structure) ==
    IF item.t = "dict"
    THEN analyze_items(self, item.sub, 1, TableName(self, current_path), structure)
    ELSE structure

RECURSIVE analyze_all(_, _, _, _)
analyze_all(self, data, i, structure) ==
    IF i > Len(data) \/ structure.raised THEN structure
    ELSE analyze_all(self, data, i + 1, analyze_recursive(self, data[i], <<>>, structure))

RECURSIVE SetTables(_, _, _)
SetTables(structure, infos, i) ==
    IF i > Len(infos) THEN structure
    ELSE SetTables(SetTable(structure, infos[i]), infos, i + 1)

analyze_structure_OnlyOnce(self, data) ==
    LET analysed == IF data.t = "list"
                    THEN analyze_all(self, [i \in 1..Len(data.sub) |-> data.sub[i].v], 1,
                                     NewStructure)
                    ELSE analyze_recursive(self, data, <<>>, NewStructure)
    IN  IF analysed.raised THEN [structure |-> analysed, self |-> self]
        ELSE [structure |-> IF self.exception_tables_added THEN NewStructure
                            ELSE SetTables(analysed, exception_tables, 1),
              self |-> [self EXCEPT !.exception_tables_added = TRUE]]

\* analyze_structure: the model returned and the modeler afterwards.  data is
\* a list of documents, or one document.  A KeyError leaves the method before
\* the exception tables are added: structure.raised, nothing is returned.
analyze_structure(self, data) ==
    LET analysed == IF data.t = "list"
                    THEN analyze_all(self, [i \in 1..Len(data.sub) |-> data.sub[i].v], 1,
                                     NewStructure)
                    ELSE analyze_recursive(self, data, <<>>, NewStructure)
    IN  IF analysed.raised THEN [structure |-> analysed, self |-> self]
        ELSE [structure |-> IF self.exception_tables_added THEN analysed
                            ELSE SetTables(analysed, exception_tables, 1),
              self |-> [self EXCEPT !.exception_tables_added = TRUE]]

\* ------------------------------------------------------------------- the DDL
\* The DDL is the sequence of its statements; a column definition is
\* [name, type, modifier], type being the words between name and modifier.

\* All sequences that take their i-th element from the i-th set.
RECURSIVE Product(_)
Product(sets) ==
    IF sets = <<>> THEN {<<>>}
    ELSE {<<h>> \o t : h \in Head(sets), t \in Product(Tail(sets))}

\* The orders in which a set can be iterated.
IterationOrders(S) ==
    {order \in [1..Cardinality(S) -> S] : \A x \in S : \E i \in DOMAIN order : order[i] = x}

RECURSIVE Flatten(_)
Flatten(seqs) == IF seqs = <<>> THEN <<>> ELSE Head(seqs) \o Flatten(Tail(seqs))

IsExceptionTable(table_name) ==
    \E i \in 1..Len(exception_tables) : exception_tables[i].name = table_name

StorageTypes_Any(data_types) == data_types

\* line 182: max(data_types, key=lambda x: 0 if x == "NULL" else 1) is the
\* first element, in the set's iteration order, that has the largest key.
StorageTypes(data_types) ==
    IF data_types \ {"NULL"} # {} THEN data_types \ {"NULL"} ELSE data_types

nullable_Always(data_types) == TRUE

\* line 183
nullable(data_types) == "NULL" \in data_types

\* lines 181-185: the definitions one inferred column can get.
ColumnDefinitions(column) ==
    {[name |-> column.name, type |-> <<data_type>>,
      modifier |-> IF nullable(column.types) THEN "NULL" ELSE "NOT NULL"] :
        data_type \in StorageTypes(column.types)}

\* lines 175-176: a predefined column, its types joined in iteration order.
PredefinedDefinitions(column) ==
    {[name |-> column.name, type |-> types, modifier |-> ""] :
        types \in IterationOrders(column.types)}

PrimaryKey_Unnamed(table_name) ==
    [name |-> <<"i", "d">>, type |-> <<"SERIAL PRIMARY KEY">>, modifier |-> ""]

PrimaryKey(table_name) ==
    [name |-> table_name \o <<"_", "i", "d">>, type |-> <<"SERIAL PRIMARY KEY">>,
     modifier |-> ""]

\* lines 170-196: the statements one table can get.
TableStatements(table) ==
    LET columns ==
            IF IsExceptionTable(table.name)
            THEN Product([i \in 1..Len(table.columns) |->
                            PredefinedDefinitions(table.columns[i])])
            ELSE {<<PrimaryKey(table.name)>> \o inferred :
                    inferred \in Product([i \in 1..Len(table.columns) |->
                                            ColumnDefinitions(table.columns[i])])}
        index ==
            IF table.name = S_missing_brands
            THEN <<[stmt |-> "CREATE INDEX", table |-> table.name,
                    columns |-> <<[name |-> S_brandcode, type |-> <<>>, modifier |-> ""]>>]>>
            ELSE IF table.name = S_missing_users
            THEN <<[stmt |-> "CREATE INDEX", table |-> table.name,
                    columns |-> <<[name |-> S_user_id, type |-> <<>>, modifier |-> ""]>>]>>
            ELSE <<>>
    IN  {<<[stmt |-> "CREATE TABLE", table |-> table.name, columns |-> c]>> \o index :
            c \in columns}

\* generate_ddl: the DDLs it can return for the structure.
generate_ddl(self, structure) ==
    {Flatten(statements) :
        statements \in Product([i \in 1..Len(structure.tables) |->
                                    TableStatements(structure.tables[i])])}

\* ------------------------------------------------- history: what was analysed
\* The dicts _analyze_recursive was called on, each with the table it was
\* analysed into: the documents that contribute to the table.
RECURSIVE Contributing(_, _, _)
Contributing(self, item, current_path) ==
    IF item.t # "dict" THEN {}
    ELSE LET table_name == TableName(self, current_path)
             Below(i) ==
                LET clean_key == clean_column_name(item.sub[i].k)
                    value == item.sub[i].v
                    branch == Branch(clean_key, value, table_name)
                IN  IF branch = "dict" THEN Contributing(self, value, clean_key)
                    ELSE IF branch = "list" THEN Contributing(self, value.sub[1].v, clean_key)
                    ELSE {}
         IN  {[table |-> table_name, item |-> item]}
                \cup UNION {Below(i) : i \in 1..Len(item.sub)}

ContributingAll(self, data) ==
    IF data.t = "list"
    THEN UNION {Contributing(self, data.sub[i].v, <<>>) : i \in 1..Len(data.sub)}
    ELSE Contributing(self, data, <<>>)

\* ------------------------------------------------------------ modeler: inputs
Item(k, v) == [k |-> k, v |-> v]

\* Documents of scalar fields only.
ScalarDocuments ==
    { JDict(<<>>),
      JDict(<<Item(K_a, JInt(1)), Item(K_b, JInt(1))>>),
      JDict(<<Item(K_b, JInt(1))>>),
      JDict(<<Item(K_a, JNull), Item(K_b, JInt(1))>>),
      JDict(<<Item(K_a, JStr(1))>>),
      JDict(<<Item(K_a, JInt(1)), Item(K_A, JNull)>>),
      JDict(<<Item(K_price, JStr(1)), Item(K_a, JStr(256))>>) }

\* Documents with the keys the modeler treats by name, and nested ones.
NestedDocuments ==
    { JDict(<<Item(K_id, JOid), Item(K_brandCode, JStr(1)), Item(K_category, JStr(1))>>),
      JDict(<<Item(K_missing_users, JDict(<<Item(K_a, JInt(1))>>))>>),
      JDict(<<Item(K_categories, JDict(<<Item(K_a, JInt(1))>>))>>),
      JDict(<<Item(K_id, JOid), Item(K_userId, JNull), Item(K_brandCode, JStr(1)),
              Item(K_category, JStr(1)), Item(K_categoryCode, JStr(1)),
              Item(K_cpg, JDict(<<Item(K_id, JOid)>>))>>),
      JDict(<<Item(K_createDate, JDate), Item(K_n, JDict(<<Item(K_a, JInt(1))>>)),
              Item(K_rewardsReceiptItemList,
                   JList(<<JDict(<<Item(K_brandCode, JNull), Item(K_a, JInt(1))>>),
                           JDict(<<Item(K_z, JInt(1))>>)>>)),
              Item(K_l, JList(<<>>))>>) }

Documents == ScalarDocuments \cup NestedDocuments

FileStems == {S_receipts, S_brands, S_rewardsreceiptitemlist}

\* What a file holds and analyze_structure is called with: a list of at most
\* MaxDocuments documents of one kind, or one document.
Populations ==
    {JList(docs) : docs \in BatchesOf(ScalarDocuments, MaxDocuments)
                            \cup BatchesOf(NestedDocuments, MaxDocuments)}
        \cup Documents

\* The history of a modeler: the last call (op), the modeler it was made on
\* (self), the data, the model and the DDL returned last, all the models
\* analyze_structure has returned on this modeler (returned) and all the DDLs
\* generate_ddl has returned for the model returned last (ddls), and the
\* dicts the last analysis called _analyze_recursive on (contributing).
NoAnalysis ==
    [op |-> "init", self |-> NewModeler, data |-> JList(<<>>),
     structure |-> NewStructure, ddl |-> <<>>, returned |-> <<>>, ddls |-> <<>>,
     contributing |-> {}]

\* ---------------------------------------------------------------- main
\* The files main reads. A user may lack _id (the store rejects its row: the
\* key is NULL); a receipt carries rewardsReceiptItemList: absent, null or a
\* list of items.
PyList(items) == [t |-> "list", v |-> items]

MainUserDocs == UserDocs \cup {[oid |-> Absent, bad |-> TRUE]}

MainReceiptDocs ==
    [oid : {Oid(r) : r \in ReceiptOids},
     userId : {Absent, Oid("u1")},
     bad : BOOLEAN,
     rewardsReceiptItemList :
        {Absent, PyNone} \cup {PyList(items) : items \in BatchesOf(ItemDocs, 1)}]

\* data_store, with a file that is not given, unreadable or empty as <<>>:
\* main stores a file's records only `if data`.
DataStores ==
    [brands : BatchesOf(BrandDocs, 1),
     users : BatchesOf(MainUserDocs, 1),
     receipts : BatchesOf(MainReceiptDocs, 2)]

\* passed: the phases main has gone through, in order (history).
NoRun ==
    [pc |-> "start",
     data_store |-> [brands |-> <<>>, users |-> <<>>, receipts |-> <<>>],
     receipts_with_ids |-> <<>>, passed |-> <<>>,
     connected |-> FALSE, closed |-> FALSE, raised |-> FALSE]

\* user['_id'].get('$oid') for user in data_store['users']
UserIdsRaises(users) == \E i \in 1..Len(users) : users[i].oid = Absent

RECURSIVE main_receipts_from_KeepFailed(_, _, _, _)
main_receipts_from_KeepFailed(S, receipts, i, receipts_with_ids) ==
    IF i > Len(receipts) THEN [S |-> S, receipts_with_ids |-> receipts_with_ids]
    ELSE LET r == insert_receipt_without_items(StartRecord(S), receipts[i])
         IN  main_receipts_from_KeepFailed(r.S, receipts, i + 1,
                Append(receipts_with_ids,
                       [receipt |-> receipts[i], receipt_id |-> r.ret]))

\* The receipts loop: [S, receipts_with_ids].
RECURSIVE main_receipts_from(_, _, _, _)
main_receipts_from(S, receipts, i, receipts_with_ids) ==
    IF i > Len(receipts) THEN [S |-> S, receipts_with_ids |-> receipts_with_ids]
    ELSE LET r == insert_receipt_without_items(StartRecord(S), receipts[i])
         IN  main_receipts_from(r.S, receipts, i + 1,
                IF r.ret # 0
                THEN Append(receipts_with_ids,
                            [receipt |-> receipts[i], receipt_id |-> r.ret])
                ELSE receipts_with_ids)

\* for item in receipt.get('rewardsReceiptItemList', []): a null list raises
\* TypeError outside any try.
ItemListRaises(receipt) == receipt.rewardsReceiptItemList = PyNone

ItemList(receipt) ==
    IF receipt.rewardsReceiptItemList = Absent THEN <<>>
    ELSE receipt.rewardsReceiptItemList.v

\* The receipt items loop: [S, raised].
RECURSIVE main_items_from(_, _, _)
main_items_from(S, receipts_with_ids, i) ==
    IF i > Len(receipts_with_ids) THEN [S |-> S, raised |-> FALSE]
    ELSE IF ItemListRaises(receipts_with_ids[i].receipt)
         THEN [S |-> S, raised |-> TRUE]
    ELSE main_items_from(
            insert_receipt_items(S, ItemList(receipts_with_ids[i].receipt),
                                 receipts_with_ids[i].receipt_id),
            receipts_with_ids, i + 1)

\* ------------------------------------------------------------------- actions
Workers == {"w1", "w2"}

IdleWorker == [pc |-> "done", batch |-> <<>>, i |-> 1, key |-> None, pend |-> {}]

NewConn == [work |-> store, open |-> FALSE, failed |-> FALSE,
            dirty |-> <<>>, txrecs |-> {}]

NoOp == [op |-> "init", arg |-> <<>>, arg2 |-> <<>>, receipt_id |-> 0,
         ret |-> 0, attempted |-> <<>>, reported |-> <<>>, txlog |-> <<>>,
         before |-> EmptyStore]

Init ==
    /\ store = EmptyStore
    /\ conn = [work |-> EmptyStore, open |-> FALSE, failed |-> FALSE,
               dirty |-> <<>>, txrecs |-> {}]
    /\ now = 0
    /\ last = NoOp
    /\ sightings = [missing_users |-> {}, missing_brands |-> {}]
    /\ workers = [w \in Workers |-> IdleWorker]
    /\ modeler = NewModeler
    /\ analysis = NoAnalysis
    /\ run = NoRun

\* The handler's view when an operation starts.
Cur ==
    [store |-> store, work |-> conn.work, open |-> conn.open,
     failed |-> conn.failed, dirty |-> conn.dirty, txrecs |-> conn.txrecs,
     now |-> now, cur |-> now,
     attempted |-> <<>>, reported |-> <<>>, txlog |-> <<>>]

Finish(S, done) ==
    /\ S.now <= MaxRecords
    /\ store' = S.store
    /\ conn' = [work |-> S.work, open |-> S.open, failed |-> S.failed,
                dirty |-> S.dirty, txrecs |-> S.txrecs]
    /\ now' = S.now
    /\ last' = [done EXCEPT !.attempted = S.attempted, !.reported = S.reported,
                            !.txlog = S.txlog, !.before = store]
    /\ UNCHANGED <<workers, modeler, analysis, run>>

InsertReceiptWithoutItems ==
    \E receipt \in ReceiptDocs :
        LET r == insert_receipt_without_items(StartRecord(Cur), receipt)
            k == RefUser(receipt)
        IN  /\ Finish(r.S, [NoOp EXCEPT !.op = "insert_receipt_without_items",
                                        !.arg = <<receipt>>, !.ret = r.ret])
            /\ sightings' = [sightings EXCEPT !.missing_users =
                    IF k # None /\ k \notin store.users
                    THEN Sight(@, k, now + 1) ELSE @]

\* main passes the receipts_id a committed receipt insert returned.
InsertReceiptItems ==
    \E items \in BatchesOf(ItemDocs, MaxRecords - now) :
    \E receipt_id \in {store.receipts[i].receipts_id : i \in 1..Len(store.receipts)} :
        /\ Finish(insert_receipt_items(Cur, items, receipt_id),
                  [NoOp EXCEPT !.op = "insert_receipt_items", !.arg = items,
                               !.receipt_id = receipt_id])
        /\ sightings' = [sightings EXCEPT !.missing_brands =
                SightItems(@, items, store.brands, now, 1)]

InsertUsersAndReceipts ==
    \E users_data \in BatchesOf(UserDocs, MaxRecords - now) :
    \E receipts_data \in BatchesOf(ReceiptDocs, MaxRecords - now - Len(users_data)) :
        /\ Finish(insert_users_and_receipts(Cur, users_data, receipts_data),
                  [NoOp EXCEPT !.op = "insert_users_and_receipts",
                               !.arg = users_data, !.arg2 = receipts_data])
        /\ UNCHANGED sightings

InsertBrandsAndCategories ==
    \E brands_data \in BatchesOf(BrandDocs, MaxRecords - now) :
        /\ Finish(insert_brands_and_categories(Cur, brands_data),
                  [NoOp EXCEPT !.op = "insert_brands_and_categories",
                               !.arg = brands_data])
        /\ UNCHANGED sightings

\* The process ends (close() rolls an open transaction back) and a new
\* DatabaseIngester connects to the same store.
Restart ==
    /\ conn' = NewConn
    /\ last' = [NoOp EXCEPT !.op = "restart", !.before = store]
    /\ UNCHANGED <<store, now, sightings, workers, modeler, analysis, run>>

Next ==
    \/ InsertReceiptWithoutItems
    \/ InsertReceiptItems
    \/ InsertUsersAndReceipts
    \/ InsertBrandsAndCategories
    \/ Restart

Spec == Init /\ [][Next]_vars

\* ------------------------------------------------------- concurrent workers
\* Each worker is a loader process with a connection of its own that calls
\* insert_receipt_without_items for the receipts of its batch.  Its statements
\* interleave with the other workers' under READ COMMITTED: a statement sees
\* what is committed, and the upsert waits while another transaction holds an
\* uncommitted write of the same key.

WorkerReceiptDocs ==
    [oid : {Oid(r) : r \in ReceiptOids}, userId : {Oid(u) : u \in UserOids},
     bad : BOOLEAN]

WorkersInit ==
    /\ \E users \in {{}, {"u2"}} : store = [EmptyStore EXCEPT !.users = users]
    /\ conn = [work |-> EmptyStore, open |-> FALSE, failed |-> FALSE,
               dirty |-> <<>>, txrecs |-> {}]
    /\ now = 0
    /\ last = NoOp
    /\ sightings = [missing_users |-> {}, missing_brands |-> {}]
    /\ modeler = NewModeler
    /\ analysis = NoAnalysis
    /\ run = NoRun
    /\ workers \in [Workers ->
            {[IdleWorker EXCEPT !.batch = b, !.pc = IF b = <<>> THEN "done" ELSE "select"] :
                b \in BatchesOf(WorkerReceiptDocs, MaxWorkerBatch)}]

LedgerBlocked_Never(w, k) == FALSE

\* The upsert of key k by w waits for every other transaction that holds an
\* uncommitted insert or update of k's row.
LedgerBlocked(w, k) ==
    \E v \in Workers \ {w} : \E r \in workers[v].pend : r.key = k

\* lines 169-175: the SELECT; a user that is not found is a sighting.
WSelect(w) ==
    LET me == workers[w]
        user_id == process_value(Get(me.batch[me.i].userId))
        missing == Truthy(user_id) /\ user_id \notin store.users
    IN  /\ me.pc = "select"
        /\ now' = now + 1
        /\ workers' = [workers EXCEPT ![w].key = user_id,
                            ![w].pc = IF missing THEN "upsert" ELSE "insert"]
        /\ sightings' = [sightings EXCEPT !.missing_users =
                IF missing THEN Sight(@, user_id, now + 1) ELSE @]
        /\ UNCHANGED <<store, conn, last, modeler, analysis, run>>

\* lines 153-160: the upsert statement, in the worker's open transaction.
WUpsert(w) ==
    LET me == workers[w]
    IN  /\ me.pc = "upsert"
        /\ ~LedgerBlocked(w, me.key)
        /\ workers' = [workers EXCEPT ![w].pc = "commit",
                ![w].pend = {RowOf(Upsert(store.missing_users, me.key, now), me.key)}]
        /\ UNCHANGED <<store, conn, now, last, sightings, modeler, analysis, run>>

\* line 161: conn.commit() of the upsert; line 178: user_id = None.
WCommitLedger(w) ==
    LET me == workers[w]
    IN  /\ me.pc = "commit"
        /\ store' = [store EXCEPT !.missing_users =
                {r \in @ : r.key # me.key} \cup me.pend]
        /\ workers' = [workers EXCEPT ![w].pc = "insert", ![w].pend = {},
                                      ![w].key = DanglingUserId(me.key)]
        /\ UNCHANGED <<conn, now, last, sightings, modeler, analysis, run>>

\* lines 197-213: the INSERT and its commit, or its rollback when it raises.
WInsert(w) ==
    LET me == workers[w]
        receipt == me.batch[me.i]
        row == [receipts_id |-> Len(store.receipts) + 1,
                oid |-> process_value(Get(receipt.oid)), userid |-> me.key]
    IN  /\ me.pc = "insert"
        /\ store' = IF receipt.bad THEN store
                    ELSE [store EXCEPT !.receipts = Append(@, row)]
        /\ workers' = [workers EXCEPT ![w].i = me.i + 1, ![w].key = None,
                ![w].pc = IF me.i = Len(me.batch) THEN "done" ELSE "select"]
        /\ UNCHANGED <<conn, now, last, sightings, modeler, analysis, run>>

WorkersNext ==
    \E w \in Workers : WSelect(w) \/ WUpsert(w) \/ WCommitLedger(w) \/ WInsert(w)

SpecWorkers == WorkersInit /\ [][WorkersNext]_vars

\* ----------------------------------------------------------- modeler: actions
ModelerInit ==
    /\ store = EmptyStore
    /\ conn = [work |-> EmptyStore, open |-> FALSE, failed |-> FALSE,
               dirty |-> <<>>, txrecs |-> {}]
    /\ now = 0
    /\ last = NoOp
    /\ sightings = [missing_users |-> {}, missing_brands |-> {}]
    /\ workers = [w \in Workers |-> IdleWorker]
    /\ modeler = NewModeler
    /\ \E data \in Populations : analysis = [NoAnalysis EXCEPT !.data = data]
    /\ run = NoRun

\* modeler = DataWarehouseModeler(): the history starts again, for the same
\* data.
Construct ==
    /\ modeler' = NewModeler
    /\ analysis' = [NoAnalysis EXCEPT !.data = analysis.data]
    /\ UNCHANGED <<store, conn, now, last, sightings, workers, run>>

\* modeler.current_file_stem = file_stem, between the construction and the
\* first analysis
SetFileStem ==
    /\ analysis.op = "init"
    /\ \E file_stem \in FileStems : modeler' = [modeler EXCEPT !.current_file_stem = file_stem]
    /\ UNCHANGED <<analysis, store, conn, now, last, sightings, workers, run>>

\* structure = modeler.analyze_structure(data)
AnalyzeStructure ==
    /\ Len(analysis.returned) < MaxCalls
    /\ LET result == analyze_structure(modeler, analysis.data)
       IN  /\ modeler' = result.self
           /\ analysis' =
                IF result.structure.raised THEN [analysis EXCEPT !.op = "KeyError"]
                ELSE [op |-> "analyze_structure", self |-> modeler,
                      data |-> analysis.data,
                      structure |-> result.structure, ddl |-> <<>>,
                      returned |-> Append(analysis.returned, result.structure),
                      ddls |-> <<>>,
                      contributing |-> ContributingAll(modeler, analysis.data)]
    /\ UNCHANGED <<store, conn, now, last, sightings, workers, run>>

\* ddl = modeler.generate_ddl(structure), for the structure returned last
GenerateDdl ==
    /\ analysis.returned # <<>>
    /\ Len(analysis.ddls) < MaxCalls
    /\ \E ddl \in generate_ddl(modeler, analysis.structure) :
            analysis' = [analysis EXCEPT !.op = "generate_ddl", !.ddl = ddl,
                                        !.ddls = Append(@, ddl)]
    /\ UNCHANGED <<modeler, store, conn, now, last, sightings, workers, run>>

ModelerNext == Construct \/ SetFileStem \/ AnalyzeStructure \/ GenerateDdl

SpecModeler == ModelerInit /\ [][ModelerNext]_vars

\* ---------------------------------------------------------- main, one run
\* SpecMain: one run of the loader's main, a step per phase. An exception
\* that reaches main leaves the try block for its finally clause.
MainInit ==
    /\ store = EmptyStore
    /\ conn = [work |-> EmptyStore, open |-> FALSE, failed |-> FALSE,
               dirty |-> <<>>, txrecs |-> {}]
    /\ now = 0
    /\ last = NoOp
    /\ sightings = [missing_users |-> {}, missing_brands |-> {}]
    /\ workers = [w \in Workers |-> IdleWorker]
    /\ modeler = NewModeler
    /\ analysis = NoAnalysis
    /\ run = NoRun

\* What a phase leaves in the store and on the connection.
MainFinish(S) ==
    /\ store' = S.store
    /\ conn' = [work |-> S.work, open |-> S.open, failed |-> S.failed,
                dirty |-> S.dirty, txrecs |-> S.txrecs]
    /\ now' = S.now
    /\ UNCHANGED <<last, sightings, workers, modeler, analysis>>

MainPass(phase, pc) ==
    run' = [run EXCEPT !.pc = pc, !.passed = Append(@, phase)]

MainRaise ==
    run' = [run EXCEPT !.pc = "close", !.raised = TRUE]

\* ingester = DatabaseIngester(), before the try: psycopg2.connect may raise.
MainConnect ==
    /\ run.pc = "start"
    /\ \E connects \in BOOLEAN :
        run' = IF connects THEN [run EXCEPT !.pc = "read", !.connected = TRUE]
               ELSE [run EXCEPT !.pc = "exit", !.raised = TRUE]
    /\ UNCHANGED <<store, conn, now, last, sightings, workers, modeler, analysis>>

MainReadFiles ==
    /\ run.pc = "read"
    /\ \E data_store \in DataStores :
        run' = [run EXCEPT !.pc = "analysis", !.data_store = data_store]
    /\ UNCHANGED <<store, conn, now, last, sightings, workers, modeler, analysis>>

MainDataAnalysis ==
    /\ run.pc = "analysis"
    /\ IF /\ run.data_store.users # <<>>
          /\ run.data_store.receipts # <<>>
          /\ UserIdsRaises(run.data_store.users)
       THEN MainRaise
       ELSE run' = [run EXCEPT !.pc = "brands"]
    /\ UNCHANGED <<store, conn, now, last, sightings, workers, modeler, analysis>>

MainBrands ==
    /\ run.pc = "brands"
    /\ MainFinish(IF run.data_store.brands # <<>>
                  THEN insert_brands_and_categories(Cur, run.data_store.brands)
                  ELSE Cur)
    /\ MainPass("brands", "users")

MainUsers ==
    /\ run.pc = "users"
    /\ MainFinish(IF run.data_store.users # <<>>
                  THEN insert_users_and_receipts(Cur, run.data_store.users, <<>>)
                  ELSE Cur)
    /\ MainPass("users", "receipts")

MainReceipts ==
    /\ run.pc = "receipts"
    /\ LET r == main_receipts_from(Cur, run.data_store.receipts, 1, <<>>)
       IN  /\ MainFinish(r.S)
           /\ run' = [run EXCEPT !.pc = "items",
                                 !.passed = Append(@, "receipts"),
                                 !.receipts_with_ids = r.receipts_with_ids]

MainItems ==
    /\ run.pc = "items"
    /\ LET r == main_items_from(Cur, run.receipts_with_ids, 1)
       IN  /\ MainFinish(r.S)
           /\ IF r.raised THEN MainRaise ELSE MainPass("items", "summary")

\* The Exception Summary: SELECTs on the ledgers.
MainSummary ==
    /\ run.pc = "summary"
    /\ IF ExecRaises(Cur, FALSE)
       THEN MainFinish(ExecFail(Cur)) /\ MainRaise
       ELSE MainFinish(ExecRead(Cur)) /\ MainPass("summary", "close")

\* finally: ingester.close(); the open transaction is discarded.
MainClose ==
    /\ run.pc = "close"
    /\ conn' = NewConn
    /\ run' = [run EXCEPT !.pc = "exit", !.closed = TRUE]
    /\ UNCHANGED <<store, now, last, sightings, workers, modeler, analysis>>

MainNext ==
    \/ MainConnect
    \/ MainReadFiles
    \/ MainDataAnalysis
    \/ MainBrands
    \/ MainUsers
    \/ MainReceipts
    \/ MainItems
    \/ MainSummary
    \/ MainClose

SpecMain == MainInit /\ [][MainNext]_vars

\* ------------------------------------------------- markers, in both programs
\* SpecMarkers: the analyzer classifies the documents of a population while
\* the loader's process_value is applied to the values of a record.
LoaderValues ==
    {PyNone, PyStr("b1"), Oid("u1"), Oid("r1"), MongoDate(0), MongoDate(1000)}

ProcessValue ==
    /\ \E value \in LoaderValues :
        last' = [NoOp EXCEPT !.op = "process_value", !.arg = <<value>>,
                             !.ret = process_value(value)]
    /\ UNCHANGED <<store, conn, now, sightings, workers, modeler, analysis, run>>

MarkersNext == SetFileStem \/ AnalyzeStructure \/ ProcessValue

SpecMarkers == ModelerInit /\ [][MarkersNext]_vars

\* ==================================================================== claims
Counts(rows) == {<<r.key, r.occurrence_count>> : r \in rows}
Seen(rows) == {<<r.key, r.first_seen, r.last_seen>> : r \in rows}

\* The records of the last operation that referred to a parent missing from
\* the store, by their place in the batch.
DanglingUser(receipt) ==
    RefUser(receipt) # None /\ RefUser(receipt) \notin last.before.users
DanglingBrand(item) ==
    RefBrand(item) # None /\ RefBrand(item) \notin last.before.brands

\* C1: for every key, the occurrence_count of its ledger row is the number of
\* load attempts so far that referred to the key while it was missing from its
\* parent table, and a key with no such attempt has no ledger row.
C1_OccurrenceCountIsAttempts ==
    /\ Counts(store.missing_users) = Counts(sightings.missing_users)
    /\ Counts(store.missing_brands) = Counts(sightings.missing_brands)

\* A user sighted twice, once by a receipt whose insert was rolled back, and a
\* brand sighted by an item.
C1_Witness ==
    /\ \E r \in store.missing_users : r.occurrence_count = 2
    /\ Len(store.receipts) = 1
    /\ store.missing_brands # {}
    /\ last.op = "insert_receipt_items"

\* C2: every ledger row's first_seen is the time of the key's first sighting
\* and its last_seen the time of the most recent one, also after one sighting.
C2_FirstAndLastSeen ==
    /\ Seen(store.missing_users) = Seen(sightings.missing_users)
    /\ Seen(store.missing_brands) = Seen(sightings.missing_brands)

\* C3: insert_receipt_without_items on a receipt whose user is not in users
\* inserts the receipt with userid NULL (when the store accepts the row) and
\* upserts missing_users: the count of that user is 1 if it had no row before
\* and one more than before otherwise.
C3_DanglingReceipt ==
    (last.op = "insert_receipt_without_items" /\ DanglingUser(last.arg[1])) =>
        LET k == RefUser(last.arg[1])
            was == IF HasRow(last.before.missing_users, k)
                   THEN RowOf(last.before.missing_users, k).occurrence_count ELSE 0
        IN  /\ HasRow(store.missing_users, k)
            /\ RowOf(store.missing_users, k).occurrence_count = was + 1
            /\ ~last.arg[1].bad =>
                /\ last.ret = Len(last.before.receipts) + 1
                /\ store.receipts = Append(last.before.receipts,
                        [receipts_id |-> last.ret, oid |-> last.arg[1].oid.v,
                         userid |-> None])

\* The second receipt of an absent user: two receipts stored with userid NULL,
\* the user's count is 2.
C3_Witness ==
    /\ last.op = "insert_receipt_without_items"
    /\ DanglingUser(last.arg[1])
    /\ Len(store.receipts) = 2
    /\ store.receipts[1].userid = None /\ store.receipts[2].userid = None
    /\ RowOf(store.missing_users, RefUser(last.arg[1])).occurrence_count = 2

\* C4: insert_receipt_without_items leaves missing_brands as it was, and
\* insert_receipt_items leaves missing_users as it was.
C4_LedgersAreSeparate ==
    /\ last.op = "insert_receipt_without_items" =>
            store.missing_brands = last.before.missing_brands
    /\ last.op = "insert_receipt_items" =>
            store.missing_users = last.before.missing_users

\* A receipt of an absent user loaded into a store whose missing_brands holds
\* a row.
C4_Witness ==
    /\ last.op = "insert_receipt_without_items"
    /\ DanglingUser(last.arg[1])
    /\ store.missing_brands # {}
    /\ store.missing_users # last.before.missing_users

\* C5: an item whose brandCode is not in brands is counted in missing_brands
\* and its row is stored with brandcode NULL: no stored row carries the code.
C5_DanglingItemNulled ==
    last.op = "insert_receipt_items" =>
        \A i \in 1..Len(last.arg) :
            DanglingBrand(last.arg[i]) =>
                /\ HasRow(store.missing_brands, RefBrand(last.arg[i]))
                /\ \A j \in 1..Len(store.rewardsreceiptitemlist) :
                        store.rewardsreceiptitemlist[j].brandcode
                            # RefBrand(last.arg[i])

\* The times that name the records of the batch at places I.
TagsAt(I) == {last.attempted[i] : i \in I}
Elems(seq) == {seq[i] : i \in 1..Len(seq)}

\* C6: within one batch a record whose insert raises is rolled back and
\* reported, every record of the batch is attempted, and each record whose own
\* insert succeeds is committed; no failure leaves the connection aborted for
\* the next record.
C6_BatchSurvivesFailures ==
    /\ ~conn.failed
    /\ last.op = "insert_receipt_items" =>
        LET items == last.arg
            bad == {i \in 1..Len(items) : items[i].bad}
            was == Len(last.before.rewardsreceiptitemlist)
        IN  /\ Len(last.attempted) = Len(items)
            /\ Elems(last.reported) = TagsAt(bad)
            /\ Len(last.reported) = Cardinality(bad)
            /\ Len(store.rewardsreceiptitemlist) = was + Len(items) - Cardinality(bad)
            /\ SubSeq(store.rewardsreceiptitemlist, 1, was)
                    = last.before.rewardsreceiptitemlist
            /\ \A j \in (was + 1)..Len(store.rewardsreceiptitemlist) :
                    store.rewardsreceiptitemlist[j].receipt_id = last.receipt_id
    /\ last.op = "insert_users_and_receipts" =>
        LET users_data == last.arg
            bad == {i \in 1..Len(users_data) : users_data[i].bad}
        IN  /\ Len(last.attempted) = Len(users_data) + Len(last.arg2)
            /\ TagsAt(bad) \subseteq Elems(last.reported)
            /\ TagsAt((1..Len(users_data)) \ bad) \cap Elems(last.reported) = {}
            /\ store.users = last.before.users \cup
                    {users_data[i].oid.v : i \in (1..Len(users_data)) \ bad}
    /\ last.op = "insert_brands_and_categories" =>
        LET brands_data == last.arg
            nc == Cardinality(CategoriesOf(brands_data))
            looked_up(i) == IF brands_data[i].category.t = "absent"
                            THEN "UNKNOWN" ELSE brands_data[i].category.v
            inserts == {i \in 1..Len(brands_data) :
                            \E r \in store.categories : r.category = looked_up(i)}
            bad == {i \in inserts : brands_data[i].bad}
        IN  /\ Len(last.attempted) = nc + Len(brands_data)
            /\ Elems(last.reported) = {last.attempted[nc + i] : i \in bad}
            /\ store.brands = last.before.brands \cup
                    {brands_data[i].brandCode.v : i \in inserts \ bad}
    /\ last.op = "insert_receipt_without_items" =>
        /\ Len(last.attempted) = 1
        /\ last.arg[1].bad =>
                /\ last.ret = 0
                /\ last.reported = last.attempted
                /\ store.receipts = last.before.receipts
        /\ ~last.arg[1].bad =>
                /\ last.ret = Len(last.before.receipts) + 1
                /\ last.reported = <<>>
                /\ Len(store.receipts) = last.ret

\* A batch of items whose first record is rejected and whose second is stored.
C6_Witness ==
    /\ last.op = "insert_receipt_items"
    /\ Len(last.arg) >= 2
    /\ last.arg[1].bad /\ ~last.arg[2].bad
    /\ last.reported = <<last.attempted[1]>>
    /\ Len(store.rewardsreceiptitemlist)
            = Len(last.before.rewardsreceiptitemlist) + Len(last.arg) - 1

\* The transactions of the last operation in which statements of record tag ran.
TxsOf(tag) == LET Ran(tx) == tag \in tx.recs IN SelectSeq(last.txlog, Ran)

RecordOps == {"insert_receipt_without_items", "insert_receipt_items"}

\* C7 as claimed: every record attempt of insert_receipt_without_items and
\* insert_receipt_items is exactly one transaction, which holds every write
\* made for the record.
C7_OneTransactionPerRecord ==
    last.op \in RecordOps =>
        \A i \in 1..Len(last.attempted) : Len(TxsOf(last.attempted[i])) = 1

\* C7 as amended: the child insert of a record is one transaction, committed
\* on success and rolled back on failure; the ledger upsert for a missing
\* parent is committed before it in a transaction of its own, and stays
\* committed when the child insert is rolled back; no transaction holds writes
\* of two records, and a record attempt leaves none open.
C7_LedgerAndChildTransactions ==
    /\ \A j \in 1..Len(last.txlog) :
            \A a, b \in Elems(last.txlog[j].writes) : a.rec = b.rec
    /\ last.op \in RecordOps =>
        /\ last.attempted # <<>> => ~conn.open
        /\ \A i \in 1..Len(last.attempted) :
            LET tag == last.attempted[i]
                rec == last.arg[i]
                receipts == last.op = "insert_receipt_without_items"
                dangling == IF receipts THEN DanglingUser(rec) ELSE DanglingBrand(rec)
                ledger == IF receipts THEN "missing_users" ELSE "missing_brands"
                table == IF receipts THEN "receipts" ELSE "rewardsreceiptitemlist"
                txs == TxsOf(tag)
                child == txs[Len(txs)]
            IN  /\ Len(txs) = IF dangling THEN 2 ELSE 1
                /\ dangling =>
                    /\ txs[1].writes = <<[rec |-> tag, table |-> ledger]>>
                    /\ txs[1].end = "commit"
                    /\ store[ledger] # last.before[ledger]
                /\ child.end = IF rec.bad THEN "rollback" ELSE "commit"
                /\ child.writes = IF rec.bad THEN <<>>
                                  ELSE <<[rec |-> tag, table |-> table]>>

\* A receipt of an absent user whose insert is rejected: the ledger upsert is
\* committed, the receipt is rolled back.
C7_Witness ==
    /\ last.op = "insert_receipt_without_items"
    /\ DanglingUser(last.arg[1]) /\ last.arg[1].bad
    /\ Len(last.txlog) = 2
    /\ last.txlog[1].end = "commit" /\ last.txlog[2].end = "rollback"
    /\ store.receipts = last.before.receipts
    /\ store.missing_users # last.before.missing_users

AllDone == \A w \in Workers : workers[w].pc = "done"

\* Workers that have sighted key k and not yet committed its upsert.
InFlight(k) == {w \in Workers : workers[w].pc \in {"upsert", "commit"} /\ workers[w].key = k}

CountOf(rows, k) == IF HasRow(rows, k) THEN RowOf(rows, k).occurrence_count ELSE 0

\* C8: under every interleaving of the workers, when all have finished the
\* occurrence_count of each key is the number of dangling sightings of the key
\* by all workers; until then it falls short by just the sightings whose upsert
\* is not yet committed.
C8_NoSightingLostOrDoubled ==
    /\ \A k \in UserOids :
            CountOf(store.missing_users, k) + Cardinality(InFlight(k))
                = CountOf(sightings.missing_users, k)
    /\ AllDone => Counts(store.missing_users) = Counts(sightings.missing_users)

\* Both workers have loaded receipts of the same absent user, one of them a
\* receipt whose insert was rolled back; the key's count is 3.
C8_Witness ==
    /\ AllDone
    /\ \A w \in Workers : \E i \in 1..Len(workers[w].batch) :
            workers[w].batch[i].userId = Oid("u1")
    /\ CountOf(store.missing_users, "u1") = 3
    /\ Len(store.receipts) < 3

\* The documents that contributed to a table in the analysis made last.
DocumentsOf(table_name) ==
    {c.item : c \in {x \in analysis.contributing : x.table = table_name}}

\* The values a document supplies for a column: those of its keys that clean
\* to the column's name.
ValuesOf(item, column_name) ==
    {item.sub[i].v : i \in {j \in 1..Len(item.sub) :
                                clean_column_name(item.sub[j].k) = column_name}}

\* The definitions of a column in the CREATE TABLE statements of the table.
DefinitionsOf(table_name, column_name) ==
    UNION {{analysis.ddl[i].columns[j] : j \in {k \in 1..Len(analysis.ddl[i].columns) :
                                    analysis.ddl[i].columns[k].name = column_name}} :
            i \in {k \in 1..Len(analysis.ddl) :
                        /\ analysis.ddl[k].stmt = "CREATE TABLE"
                        /\ analysis.ddl[k].table = table_name}}

\* The inferred tables of the model analysed last.
InferredTables ==
    {analysis.structure.tables[i] : i \in {k \in 1..Len(analysis.structure.tables) :
        ~IsExceptionTable(analysis.structure.tables[k].name)}}

ColumnsOf(table) == {table.columns[i] : i \in 1..Len(table.columns)}

\* The column takes its types from infer_data_type, not from a special case.
GenericallyClassified(table_name, column_name) ==
    Branch(column_name, JNull, table_name) = "scalar"

OmittedOrNull(item, column_name) ==
    ValuesOf(item, column_name) = {} \/ JNull \in ValuesOf(item, column_name)

\* C9: when generate_ddl has run on the model of a population, every
\* generically classified column of a table that some contributing document
\* omits or supplies as null has the null-marker in its type-set and is
\* emitted as nullable (NULL).
C9_OmittedOrNullIsNullable ==
    analysis.op = "generate_ddl" =>
        \A table \in InferredTables : \A column \in ColumnsOf(table) :
            (/\ GenericallyClassified(table.name, column.name)
             /\ \E item \in DocumentsOf(table.name) : OmittedOrNull(item, column.name))
            => /\ "NULL" \in column.types
               /\ \A definition \in DefinitionsOf(table.name, column.name) :
                        definition.modifier = "NULL"

PresentAndNonNullEverywhere(table_name, column_name) ==
    /\ DocumentsOf(table_name) # {}
    /\ \A item \in DocumentsOf(table_name) : ~OmittedOrNull(item, column_name)

\* C10: when generate_ddl has run on the model of a population, every column
\* of a table that every contributing document supplies, and none as null, is
\* emitted in the table's statement with the modifier NOT NULL.
C10_PresentNonNullIsNotNull ==
    analysis.op = "generate_ddl" =>
        \A table \in InferredTables : \A column \in ColumnsOf(table) :
            PresentAndNonNullEverywhere(table.name, column.name)
            => /\ DefinitionsOf(table.name, column.name) # {}
               /\ \A definition \in DefinitionsOf(table.name, column.name) :
                        definition.modifier = "NOT NULL"

\* Two different documents contributed to a table; one of its columns is
\* non-null in both and emitted NOT NULL, while another is null in one of
\* them and emitted NULL.
C10_Witness ==
    /\ analysis.op = "generate_ddl"
    /\ \E table \in InferredTables : \E c1, c2 \in ColumnsOf(table) :
        /\ Cardinality(DocumentsOf(table.name)) = 2
        /\ PresentAndNonNullEverywhere(table.name, c1.name)
        /\ \E definition \in DefinitionsOf(table.name, c1.name) :
                definition.modifier = "NOT NULL"
        /\ \E item \in DocumentsOf(table.name) : JNull \in ValuesOf(item, c2.name)
        /\ \E definition \in DefinitionsOf(table.name, c2.name) :
                definition.modifier = "NULL"

\* A model without the order of its tables and columns: each table with its
\* column type-sets and its relationship set.
TablesOf(structure) ==
    {[name |-> structure.tables[i].name,
      columns |-> {<<c.name, c.types>> : c \in ColumnsOf(structure.tables[i])},
      relationships |-> structure.tables[i].relationships] :
        i \in 1..Len(structure.tables)}

OtherThanExceptionTables(tables) == {t \in tables : ~IsExceptionTable(t.name)}

ExceptionTables == TablesOf([tables |-> exception_tables])

\* C11 as stated: any two models that analyze_structure has returned for the
\* population have the same tables, with identical column type-sets and
\* identical relationship sets.
C11_ReanalysisIsIdentical ==
    \A i, j \in 1..Len(analysis.returned) :
        TablesOf(analysis.returned[i]) = TablesOf(analysis.returned[j])

\* C11, amended: any two models that analyze_structure has returned for the
\* population on one modeler have the same tables other than missing_brands
\* and missing_users, with identical column type-sets and identical
\* relationship sets; the two fixed exception tables are in the first model.
C11_ReanalysisAgreesOnInferredTables ==
    /\ \A i, j \in 1..Len(analysis.returned) :
            OtherThanExceptionTables(TablesOf(analysis.returned[i]))
                = OtherThanExceptionTables(TablesOf(analysis.returned[j]))
    /\ analysis.returned # <<>> => ExceptionTables \subseteq TablesOf(analysis.returned[1])

\* The population has been analysed twice on one modeler, into three
\* inferred tables with columns and relationships; the second model lacks the
\* exception tables of the first.
C11_Witness ==
    /\ Len(analysis.returned) = 2
    /\ Cardinality(OtherThanExceptionTables(TablesOf(analysis.returned[2]))) = 3
    /\ \E t \in TablesOf(analysis.returned[2]) : t.relationships # {} /\ t.columns # {}
    /\ TablesOf(analysis.returned[1]) # TablesOf(analysis.returned[2])

\* The CREATE TABLE statements for a table in a DDL, by their places.
CreatesOf(ddl, table_name) ==
    {i \in 1..Len(ddl) : ddl[i].stmt = "CREATE TABLE" /\ ddl[i].table = table_name}

ExceptionTableNames == {exception_tables[i].name : i \in 1..Len(exception_tables)}

\* C12: when generate_ddl has been called twice on a model that holds the
\* exception tables, the two DDLs together hold exactly one CREATE TABLE
\* statement for missing_brands and exactly one for missing_users.
C12_ExceptionTablesOnceOverTwoCalls ==
    (/\ Len(analysis.ddls) >= 2
     /\ ExceptionTables \subseteq TablesOf(analysis.structure))
    => \A table_name \in ExceptionTableNames :
            Cardinality(CreatesOf(analysis.ddls[1], table_name))
                + Cardinality(CreatesOf(analysis.ddls[2], table_name)) = 1

\* The models returned so far, by their places, that hold a table of the name.
ReturnedWith(table_name) ==
    {i \in 1..Len(analysis.returned) :
        \E t \in TablesOf(analysis.returned[i]) : t.name = table_name}

\* C13: of the models that analyze_structure has returned on one modeler,
\* the first and no other holds a missing_brands and a missing_users table, so
\* that the DDLs of all of them together hold one CREATE TABLE statement for
\* each of the two.
C13_ExceptionTablesInFirstModelOnly ==
    analysis.returned # <<>> =>
        \A table_name \in ExceptionTableNames :
            /\ ReturnedWith(table_name) = {1}
            /\ \A i \in 1..Len(analysis.returned) :
                \A ddl \in generate_ddl(modeler, analysis.returned[i]) :
                    Cardinality(CreatesOf(ddl, table_name)) = IF i = 1 THEN 1 ELSE 0

\* The brands document {"_id": {"$oid": ...}, "brandCode": "X1", "category": "SNACK"}.
OneBrand ==
    JDict(<<Item(K_id, JOid), Item(K_brandCode, JStr(1)), Item(K_category, JStr(1))>>)

AnalysedOneBrand ==
    /\ analysis.op # "init"
    /\ analysis.self.current_file_stem = S_brands
    /\ analysis.data \in {JList(<<OneBrand>>), OneBrand}

\* C14: the model of a brands population of one document with _id, brandCode
\* and category has a brands table with a brandcode column of type
\* VARCHAR(255), a categories table, and on the brands table the relationship
\* brands.category_id -> categories.category_id.
C14_BrandsScenario ==
    AnalysedOneBrand =>
        /\ \E t \in TablesOf(analysis.structure) :
            /\ t.name = S_brands
            /\ <<S_brandcode, {"VARCHAR(255)"}>> \in t.columns
            /\ Relationship(
                "foreign key relationship: {table_name}.category_id -> categories.category_id",
                S_brands, <<>>) \in t.relationships
        /\ \E t \in TablesOf(analysis.structure) : t.name = S_categories

\* The one-document brands population has been analysed, by a new modeler.
C14_Witness ==
    /\ AnalysedOneBrand
    /\ analysis.data = JList(<<OneBrand>>)
    /\ Len(analysis.returned) = 1
    /\ Cardinality(TablesOf(analysis.structure)) = 4

\* The column's definition in the DDL has one storage type, taken from the
\* type-set and not the null-marker if the set has another, and is nullable
\* just when the null-marker is in the set.
Unified(table, column) ==
    /\ Cardinality(DefinitionsOf(table.name, column.name)) = 1
    /\ \A definition \in DefinitionsOf(table.name, column.name) :
        /\ Len(definition.type) = 1
        /\ definition.type[1] \in column.types
        /\ column.types # {"NULL"} => definition.type[1] # "NULL"
        /\ definition.modifier \in {"NULL", "NOT NULL"}
        /\ definition.modifier = "NULL" <=> "NULL" \in column.types

\* C15: in a DDL that generate_ddl has returned, every inferred column has
\* exactly one storage type, a type other than the null-marker whenever its
\* type-set holds one, and is marked nullable if and only if the null-marker
\* is in its type-set.
C15_UnifierPrefersNonNull ==
    analysis.op = "generate_ddl" =>
        \A table \in InferredTables : \A column \in ColumnsOf(table) : Unified(table, column)

\* A DDL has been generated for a table with a column observed as null and
\* as integer, emitted INTEGER NULL, next to a column observed as integer only.
C15_Witness ==
    /\ analysis.op = "generate_ddl"
    /\ \E table \in InferredTables :
        /\ \E column \in ColumnsOf(table) :
            /\ column.types = {"NULL", "INTEGER"}
            /\ \E definition \in DefinitionsOf(table.name, column.name) :
                    definition.type = <<"INTEGER">> /\ definition.modifier = "NULL"
        /\ \E column \in ColumnsOf(table) : column.types = {"INTEGER"}

\* C16: in a DDL that generate_ddl has returned, the storage type of every
\* inferred column is fixed by the column's type-set: it is the one type that
\* generate_ddl can choose for that set, whatever the order in which the set
\* is iterated.
C16_StorageTypeFixedByTypeSet ==
    analysis.op = "generate_ddl" =>
        \A table \in InferredTables : \A column \in ColumnsOf(table) :
            \A definition \in DefinitionsOf(table.name, column.name) :
                \A data_type \in StorageTypes(column.types) : definition.type = <<data_type>>

\* The statement is the table's: its synthetic key <table>_id SERIAL PRIMARY
\* KEY, then one definition for each inferred column, in the model's order.
StatementOfInferred(statement, table) ==
    /\ Len(statement.columns) = 1 + Len(table.columns)
    /\ statement.columns[1] =
            [name |-> table.name \o <<"_", "i", "d">>, type |-> <<"SERIAL PRIMARY KEY">>,
             modifier |-> ""]
    /\ \A j \in 1..Len(table.columns) :
            statement.columns[j + 1].name = table.columns[j].name

\* C17: a DDL that generate_ddl has returned holds exactly one CREATE TABLE
\* statement for each table of the model and none for any other table; the
\* statement of a table not named as an exception table starts with the
\* column <table>_id SERIAL PRIMARY KEY, followed by one definition per
\* inferred column; the DDL of a model without tables has no statement.
C17_OneStatementPerTable ==
    analysis.op = "generate_ddl" =>
        LET tables == analysis.structure.tables
            ddl == analysis.ddl
        IN  /\ \A i \in 1..Len(tables) :
                /\ Cardinality(CreatesOf(ddl, tables[i].name)) = 1
                /\ ~IsExceptionTable(tables[i].name) =>
                    \A k \in CreatesOf(ddl, tables[i].name) :
                        StatementOfInferred(ddl[k], tables[i])
            /\ Cardinality({k \in 1..Len(ddl) : ddl[k].stmt = "CREATE TABLE"}) = Len(tables)
            /\ tables = <<>> => ddl = <<>>

\* A DDL has been generated for a model with three inferred tables and the
\* two exception tables.
C17_Witness ==
    /\ analysis.op = "generate_ddl"
    /\ Cardinality(InferredTables) = 3
    /\ Len(analysis.structure.tables) = 5
    /\ \E table \in InferredTables : Len(table.columns) >= 2
    /\ Len(analysis.ddl) = 7

\* A DDL has been generated for a model without tables, and is empty.
C17_WitnessEmpty ==
    analysis.op = "generate_ddl" /\ analysis.structure.tables = <<>> /\ analysis.ddl = <<>>

\* The fixed table of the name, as the modeler's exception_tables has it.
FixedTable(table_name) ==
    exception_tables[CHOOSE i \in 1..Len(exception_tables) :
                        exception_tables[i].name = table_name]

\* The natural lookup key of an exception table: its second column.
LookupKey(table_name) == FixedTable(table_name).columns[2].name

\* The statement defines exactly the five fixed columns, each with its fixed
\* type and no modifier.
StatementOfFixed(statement, table_name) ==
    /\ Len(statement.columns) = 5
    /\ \A j \in 1..Len(statement.columns) :
        /\ j <= Len(FixedTable(table_name).columns)
        /\ statement.columns[j].name = FixedTable(table_name).columns[j].name
        /\ {statement.columns[j].type[n] : n \in 1..Len(statement.columns[j].type)}
                = FixedTable(table_name).columns[j].types

\* C18: in every model returned and every DDL generated, a table named
\* missing_brands or missing_users has exactly the five fixed columns, with no
\* synthetic <table>_id column and no inferred column, and its CREATE TABLE
\* statement is directly followed by a CREATE INDEX statement on its lookup key.
C18_ExceptionTablesAreFixed ==
    /\ \A t \in TablesOf(analysis.structure) :
            IsExceptionTable(t.name) => t \in ExceptionTables
    /\ analysis.op = "generate_ddl" =>
        \A table_name \in ExceptionTableNames :
            \A k \in CreatesOf(analysis.ddl, table_name) :
                /\ StatementOfFixed(analysis.ddl[k], table_name)
                /\ k < Len(analysis.ddl)
                /\ analysis.ddl[k + 1].stmt = "CREATE INDEX"
                /\ analysis.ddl[k + 1].table = table_name
                /\ analysis.ddl[k + 1].columns[1].name = LookupKey(table_name)

\* ------------------------------------------------------------------ C19
Phases == <<"brands", "users", "receipts", "items", "summary">>

\* C19: whatever the records are, a run of main that got its connection goes
\* through every phase and then closes the connection; a run that did not
\* get its connection loads nothing.
C19_EveryPhaseThenClose ==
    run.pc = "exit" =>
        IF run.connected THEN run.passed = Phases /\ run.closed
        ELSE store = EmptyStore /\ run.passed = <<>>

\* ------------------------------------------------------------------ C20
\* The special-cased fields: table, column, the type the source hard-wires
\* for it, and its foreign-key relationship.
UserReference ==
    [table |-> S_receipts, column |-> S_userid, type |-> "VARCHAR(24)",
     foreign_key |->
        Relationship("foreign key relationship: {table_name}.{clean_key} -> users._id",
                     S_receipts, S_userid)]

BrandReference ==
    [table |-> S_rewardsreceiptitemlist, column |-> S_brandcode, type |-> "VARCHAR(255)",
     foreign_key |->
        Relationship("foreign key relationship: {table_name}.{clean_key} -> brands.brandcode",
                     S_rewardsreceiptitemlist, S_brandcode)]

CategoryField ==
    [table |-> S_brands, column |-> S_category, type |-> "VARCHAR(255)",
     foreign_key |->
        Relationship("foreign key relationship: {table_name}.category_id -> categories.category_id",
                     S_brands, <<>>)]

ExceptionTracking ==
    {Relationship("tracked by missing_users when not in users table", <<>>, <<>>),
     Relationship("tracked by missing_brands when not in brands table", <<>>, <<>>)}

\* The last analysis met the field: a document analysed into the field's
\* table has a key that cleans to the field's name.
Analysed(field) ==
    /\ analysis.op # "init"
    /\ \E item \in DocumentsOf(field.table) : ValuesOf(item, field.column) # {}

\* The field's column has the hard-wired type and no other, and its table
\* has the foreign-key relationship and an exception-tracking relationship.
TypedAndTracked(field) ==
    \E table \in TablesOf(analysis.structure) :
        /\ table.name = field.table
        /\ <<field.column, {field.type}>> \in table.columns
        /\ field.foreign_key \in table.relationships
        /\ table.relationships \cap ExceptionTracking # {}

\* C20 as stated: each of the three special-cased fields that an analysis
\* meets gets its hard-wired storage type, a foreign-key relationship and an
\* exception-tracking relationship on its table.
C20_SpecialFieldsTypedAndTracked ==
    \A field \in {UserReference, BrandReference, CategoryField} :
        Analysed(field) => TypedAndTracked(field)

\* C20, amended: userid on receipts and brandcode on rewardsreceiptitemlist
\* get the hard-wired storage type as their only type, a foreign-key
\* relationship and an exception-tracking relationship on their table;
\* category on brands gives brands no column and no exception-tracking
\* relationship, only the foreign-key relationship through category_id, and
\* the model a categories table with category and categorycode as
\* VARCHAR(255).
C20_ReferencesTypedAndTracked ==
    /\ \A field \in {UserReference, BrandReference} :
            Analysed(field) => TypedAndTracked(field)
    /\ Analysed(CategoryField) =>
        /\ \E table \in TablesOf(analysis.structure) :
                /\ table.name = S_brands
                /\ \A column \in table.columns : column[1] # S_category
                /\ CategoryField.foreign_key \in table.relationships
                /\ table.relationships \cap ExceptionTracking = {}
        /\ \E table \in TablesOf(analysis.structure) :
                /\ table.name = S_categories
                /\ <<S_category, {"VARCHAR(255)"}>> \in table.columns
                /\ <<S_categorycode, {"VARCHAR(255)"}>> \in table.columns

\* An analysis that met the category of a brand and, in a nested list of
\* line items, a brand reference that is null.
C20_Witness ==
    /\ Analysed(CategoryField)
    /\ \E item \in DocumentsOf(S_rewardsreceiptitemlist) :
            JNull \in ValuesOf(item, S_brandcode)

\* An analysis that met a user reference on receipts.
C20_WitnessUser == Analysed(UserReference)

\* ------------------------------------------------------------------ C21
\* The fields of the last analysis whose value is a mapping with a marker:
\* the table the enclosing dict was analysed into, the cleaned key, the value.
MarkerFields ==
    UNION {{[table |-> c.table, column |-> clean_column_name(c.item.sub[i].k),
             value |-> c.item.sub[i].v] :
                i \in {j \in 1..Len(c.item.sub) :
                        /\ c.item.sub[j].v.t = "dict"
                        /\ \/ HasKey(c.item.sub[j].v, K_DollarDate)
                           \/ HasKey(c.item.sub[j].v, K_DollarOid)
                        /\ GenericallyClassified(c.table,
                                clean_column_name(c.item.sub[j].k))}} :
            c \in analysis.contributing}

MarkerType(value) ==
    IF HasKey(value, K_DollarDate) THEN "TIMESTAMP" ELSE "VARCHAR(24)"

FixedTableNames == {S_missing_brands, S_missing_users, S_categories}

\* C21: a field that is not special-cased and whose value is a mapping with
\* the $date marker has TIMESTAMP, one with the $oid marker VARCHAR(24), in
\* the type-set of its column in the owning table; the mapping is not analysed
\* as a dict and every inferred table of the model is the table of a dict
\* that was; process_value returns the identifier of a $oid mapping and the
\* timestamp of a $date mapping.
C21_MarkersAreScalars ==
    /\ analysis.op # "init" =>
        /\ \A field \in MarkerFields :
            /\ \E table \in TablesOf(analysis.structure) :
                /\ table.name = field.table
                /\ \E column \in table.columns :
                    column[1] = field.column /\ MarkerType(field.value) \in column[2]
            /\ \A c \in analysis.contributing : c.item # field.value
        /\ \A table \in TablesOf(analysis.structure) :
                table.name \notin FixedTableNames
                => \E c \in analysis.contributing : c.table = table.name
    /\ last.op = "process_value" =>
        \A value \in {last.arg[1]} :
            /\ value.t = "oid" => last.ret = value.v
            /\ value.t = "date" => last.ret = FromTimestamp(value.v)

\* An analysis met a $date field and a $oid field, and process_value has
\* unwrapped a $date mapping.
C21_Witness ==
    /\ analysis.op # "init"
    /\ \E f1, f2 \in MarkerFields :
            MarkerType(f1.value) = "TIMESTAMP" /\ MarkerType(f2.value) = "VARCHAR(24)"
    /\ last.op = "process_value"
    /\ last.arg[1].t = "date"

\* process_value has unwrapped a $oid mapping.
C21_WitnessOid == last.op = "process_value" /\ last.arg[1].t = "oid"

\* ------------------------------------------------------------------ C22
\* The fields of the last analysis whose value is a list with a dict as its
\* first element and that are not special-cased: the parent table, the
\* cleaned key, the elements of the list.
ListFields ==
    UNION {{[table |-> c.table, column |-> clean_column_name(c.item.sub[i].k),
             elements |-> [e \in 1..Len(c.item.sub[i].v.sub) |-> c.item.sub[i].v.sub[e].v]] :
                i \in {j \in 1..Len(c.item.sub) :
                        Branch(clean_column_name(c.item.sub[j].k), c.item.sub[j].v,
                               c.table) = "list"}} :
            c \in analysis.contributing}

\* The cleaned keys of a dict that the analysis of the dict into the table
\* turns into columns by classifying their values.
ClassifiedKeys(item, table_name) ==
    {clean_column_name(item.sub[i].k) :
        i \in {j \in 1..Len(item.sub) :
                Branch(clean_column_name(item.sub[j].k), item.sub[j].v, table_name)
                    \in {"scalar", "marker"}}}

ColumnNames(table_name) ==
    UNION {{column[1] : column \in table.columns} :
            table \in {t \in TablesOf(analysis.structure) : t.name = table_name}}

KeysOf(item) ==
    IF item.t = "dict" THEN {clean_column_name(item.sub[i].k) : i \in 1..Len(item.sub)}
    ELSE {}

C23_DanglingReceiptKept ==
    last.op = "insert_users_and_receipts" =>
        \A i \in 1..Len(last.arg2) :
            (/\ RefUser(last.arg2[i]) # None
             /\ RefUser(last.arg2[i]) \notin store.users
             /\ ~last.arg2[i].bad)
            => /\ HasRow(store.missing_users, RefUser(last.arg2[i]))
               /\ \E j \in (Len(last.before.receipts) + 1)..Len(store.receipts) :
                    /\ store.receipts[j].oid = last.arg2[i].oid.v
                    /\ store.receipts[j].userid = None

\* ------------------------------------------------------------------ C24
IsPrefix(s, t) == Len(s) <= Len(t) /\ \A i \in 1..Len(s) : s[i] = t[i]

ItemRowsOf(receipt_id) ==
    {j \in 1..Len(store.rewardsreceiptitemlist) :
        store.rewardsreceiptitemlist[j].receipt_id = receipt_id}

\* C24: in a run of main the phases are passed in the order brands, users,
\* receipts, receipt items; users are stored only after the brands phase,
\* receipts only after the users phase, items only after the receipts phase
\* has attempted every receipt; every stored item carries the receipts_id of
\* a committed receipts row that an insert of the run returned, and a
\* receipt has no more item rows than items: a receipt whose insert failed
\* has none.
C24_PhasesInOrder ==
    /\ IsPrefix(run.passed, Phases)
    /\ store.users # {} => Len(run.passed) >= 1
    /\ store.receipts # <<>> => Len(run.passed) >= 2
    /\ store.rewardsreceiptitemlist # <<>> =>
        /\ Len(run.passed) >= 3
        /\ Len(store.receipts) = Len(run.receipts_with_ids)
    /\ \A j \in 1..Len(store.rewardsreceiptitemlist) :
        /\ \E i \in 1..Len(store.receipts) :
                store.receipts[i].receipts_id = store.rewardsreceiptitemlist[j].receipt_id
        /\ \E i \in 1..Len(run.receipts_with_ids) :
                run.receipts_with_ids[i].receipt_id
                    = store.rewardsreceiptitemlist[j].receipt_id
    /\ \A i \in 1..Len(run.receipts_with_ids) :
        /\ run.receipts_with_ids[i].receipt_id # 0
        /\ ~run.receipts_with_ids[i].receipt.bad
        /\ Cardinality(ItemRowsOf(run.receipts_with_ids[i].receipt_id))
                <= IF ItemListRaises(run.receipts_with_ids[i].receipt) THEN 0
                   ELSE Len(ItemList(run.receipts_with_ids[i].receipt))

\* A run of two receipts with an item each: the first one's insert failed,
\* the second one's was committed and its item is stored.
C24_Witness ==
    /\ run.pc = "exit"
    /\ Len(run.data_store.receipts) = 2
    /\ run.data_store.receipts[1].bad
    /\ run.data_store.receipts[1].rewardsReceiptItemList.t = "list"
    /\ ItemList(run.data_store.receipts[1]) # <<>>
    /\ Len(run.receipts_with_ids) = 1
    /\ Len(store.rewardsreceiptitemlist) = 1
    /\ store.users # {}

\* ------------------------------------------------------------------ C25
\* The populations made of the documents of the one analysed: its
\* permutations, and those with a document left out where it was repeated
\* or repeated where it was not.
Rearrangements(data) ==
    LET documents == {data.sub[i].v : i \in 1..Len(data.sub)}
    IN  {docs \in UNION {[1..k -> documents] : k \in 1..MaxDocuments} :
            {docs[i] : i \in 1..Len(docs)} = documents}

\* C25: when analyze_structure has returned the model of a population, its
\* analysis of any rearrangement of the population, on a modeler in the same
\* state, returns a model with the same tables, the same column type-sets and
\* the same relationship sets.
C25_OrderAndRepetitionIrrelevant ==
    (analysis.op = "analyze_structure" /\ analysis.data.t = "list") =>
        \A docs \in Rearrangements(analysis.data) :
            LET other == analyze_structure(analysis.self, JList(docs)).structure
            IN  ~other.raised /\ TablesOf(other) = TablesOf(analysis.structure)

\* ------------------------------------------------------------------ C26
\* The column of the reference in the model returned last has the hard-wired
\* type as its only type, and every definition of it in the DDL generated
\* last is that type with NOT NULL.
AlwaysNotNull(field) ==
    /\ \A table \in TablesOf(analysis.structure) :
            table.name = field.table =>
                \A column \in table.columns :
                    column[1] = field.column => column[2] = {field.type}
    /\ analysis.op = "generate_ddl" =>
        /\ field.column \in ColumnNames(field.table)
                => DefinitionsOf(field.table, field.column) # {}
        /\ \A definition \in DefinitionsOf(field.table, field.column) :
                definition.type = <<field.type>> /\ definition.modifier = "NOT NULL"

LookupCategory(brand) ==
    IF brand.category.t = "absent" THEN "UNKNOWN" ELSE brand.category.v

Uncategorised(brand) == ~Truthy(Get(brand.category).v)

CategoryRows(s) == {r.category : r \in s.categories}

\* C27 as stated: categories never has a row for 'UNKNOWN', and a brand code
\* that was not in brands and that the batch supplies only in documents
\* without a category (or with an empty one) is not in brands afterwards.
C27_UncategorisedBrandNeverInserted ==
    /\ "UNKNOWN" \notin CategoryRows(store)
    /\ last.op = "insert_brands_and_categories" =>
        \A i \in 1..Len(last.arg) :
            (/\ last.arg[i].brandCode.v \notin last.before.brands
             /\ \A j \in 1..Len(last.arg) :
                    last.arg[j].brandCode = last.arg[i].brandCode
                    => Uncategorised(last.arg[j]))
            => last.arg[i].brandCode.v \notin store.brands

\* C27, amended: insert_brands_and_categories adds a brand code to brands
\* only for a document whose lookup category has a categories row; no row
\* has an empty category, and a row for 'UNKNOWN' is created only for a
\* brand that names that category, so a brand without a category (or with an
\* empty one) is inserted only into a store that has the 'UNKNOWN' row; and
\* insert_receipt_items leaves a missing_brands row for every item whose
\* brandCode is not in brands.
C27_BrandNeedsCategoryRow ==
    /\ "" \notin CategoryRows(store)
    /\ last.op = "insert_brands_and_categories" =>
        /\ \A code \in store.brands \ last.before.brands :
            \E i \in 1..Len(last.arg) :
                /\ last.arg[i].brandCode.v = code
                /\ ~last.arg[i].bad
                /\ LookupCategory(last.arg[i]) \in CategoryRows(store)
        /\ "UNKNOWN" \in CategoryRows(store) \ CategoryRows(last.before) =>
            \E i \in 1..Len(last.arg) : last.arg[i].category = PyStr("UNKNOWN")
        /\ \A i \in 1..Len(last.arg) :
            (/\ last.arg[i].brandCode.v \notin last.before.brands
             /\ "UNKNOWN" \notin CategoryRows(store)
             /\ \A j \in 1..Len(last.arg) :
                    last.arg[j].brandCode = last.arg[i].brandCode
                    => Uncategorised(last.arg[j]))
            => last.arg[i].brandCode.v \notin store.brands
    /\ last.op = "insert_receipt_items" =>
        \A i \in 1..Len(last.arg) :
            DanglingBrand(last.arg[i])
            => HasRow(store.missing_brands, RefBrand(last.arg[i]))

\* A batch of a brand without a category and a brand with an empty one,
\* loaded into a store that has a category row: neither is inserted.
C27_Witness ==
    /\ last.op = "insert_brands_and_categories"
    /\ Len(last.arg) = 2
    /\ last.arg[1].category = Absent /\ ~last.arg[1].bad
    /\ last.arg[2].category = PyStr("") /\ ~last.arg[2].bad
    /\ store.categories # {}
    /\ store.brands = {}

\* A later load of an item carrying the code of a brand that is not in
\* brands although categories has rows: the item is counted.
C27_WitnessItems ==
    /\ last.op = "insert_receipt_items"
    /\ store.categories # {} /\ store.brands = {}
    /\ \E i \in 1..Len(last.arg) :
        /\ DanglingBrand(last.arg[i])
        /\ HasRow(store.missing_brands, RefBrand(last.arg[i]))

\* ------------------------------------------------------------------ C28
\* The field is classified by its values, some document of the table
\* supplies it, and every document that does supplies null.
NullWhereverPresent(table_name, column_name) ==
    /\ GenericallyClassified(table_name, column_name)
    /\ \E item \in DocumentsOf(table_name) : ValuesOf(item, column_name) # {}
    /\ \A item \in DocumentsOf(table_name) : ValuesOf(item, column_name) \subseteq {JNull}

====
